---------------------------- MODULE Spec2Model ----------------------------
(* A state-machine model of the chess rules engine of chess-on-console:   *)
(* Position (helpers/constants.py), the piece catalogue                   *)
(* (models/pieces/standard.py), Board (models/board.py), Game             *)
(* (models/game.py) and StandardGame (models/game_modes/standard.py).     *)
(*                                                                        *)
(* Representation.  A Position is <<col, row>> where col is the code      *)
(* point of the file letter (ord('a') = 97) and row the rank; off-board   *)
(* values are representable.  A piece object is an index into `pieces`;   *)
(* the grid `matrix` holds piece indices (NoPiece for Python's None) in   *)
(* the code's layout: matrix[1] is rank 8, matrix[8] is rank 1.  Text     *)
(* (FEN, move tokens, castling rights) is a sequence of one-character     *)
(* strings.                                                               *)
EXTENDS Integers, Sequences, FiniteSets, TLC

VARIABLES
    matrix,           \* Board.matrix
    pieces,           \* the Piece objects: [kind, color, pos, legal_moves]
    kings,            \* Board.kings
    turn,             \* Board.turn
    castling,         \* Board.castling
    en_passant,       \* Board.en_passant
    halfmove_clock,   \* Game.halfmove_clock
    fullmove_number,  \* Game.fullmove_number
    move_history,     \* Board.move_history
    outcome,          \* how the last call ended (a return or the exception raised)
    prev,             \* the game as it was when the last call started
    input,            \* the text the last call was given
    moved_kings,      \* the colours whose king has made a committed move
    moved_pieces      \* the pieces a committed move has named as its mover

vars == <<matrix, pieces, kings, turn, castling, en_passant, halfmove_clock,
          fullmove_number, move_history, outcome, prev, input, moved_kings,
          moved_pieces>>

--------------------------------------------------------------------------
(* Bounds of the model *)

\* move() is called while the fullmove number is below MaxFullmove
MaxFullmove == 4

\* The same, in the games played from the standard starting position
MaxStartFullmove == 3

\* The same, in the games played from the endgames
MaxEndFullmove == 6

\* The same, when move() is also called on a game that is over
MaxAfterFullmove == 6

\* The same, in the games with a king and a rook on one rank
MaxPinFullmove == 5

\* The same, in the games of king steps
MaxShuffleFullmove == 6

\* How many files and ranks beyond the board the positions given to is_valid go
MaxOffBoard == 2

--------------------------------------------------------------------------
(* helpers/functions.py, helpers/constants.py *)

OrdA == 97

BoardSize == 8

NoPiece == 0

None == <<>>

WHITE == "WHITE"
BLACK == "BLACK"

COLOR_MAP == [w |-> WHITE, b |-> BLACK]

Abs(x) == IF x < 0 THEN -x ELSE x

\* "y = x" followed by "F(y)": x is evaluated once, then F on its value
Let(x, F(_)) == CHOOSE r \in {F(y) : y \in {x}} : TRUE

col_to_int(col) == col - OrdA

int_to_col(num) == num + OrdA

Position(col, row) == <<col, row>>

Col(pos) == pos[1]

Row(pos) == pos[2]

PosAdd(pos, d) == Position(int_to_col(col_to_int(Col(pos)) + d[1]), Row(pos) + d[2])

PosSub(pos, d) == Position(int_to_col(col_to_int(Col(pos)) - d[1]), Row(pos) - d[2])

PosDiff(pos, other) ==
    <<col_to_int(Col(pos)) - col_to_int(Col(other)), Row(pos) - Row(other)>>

\* Position.__next__: the square after pos in the scan a1, b1, ..., h1, a2, ...;
\* None stands for StopIteration.
PosNext(pos) ==
    IF Col(pos) = int_to_col(7)
    THEN IF Row(pos) = 8 THEN None ELSE Position(int_to_col(0), Row(pos) + 1)
    ELSE Position(int_to_col(col_to_int(Col(pos)) + 1), Row(pos))

\* Characters of file letters and digits, as text uses them.
FileChars == <<"a", "b", "c", "d", "e", "f", "g", "h">>

DigitChars == <<"1", "2", "3", "4", "5", "6", "7", "8">>

IsFileChar(ch) == \E i \in 1..8 : FileChars[i] = ch

IsDigitChar(ch) == \E i \in 1..8 : DigitChars[i] = ch

DecimalChars == <<"0", "1", "2", "3", "4", "5", "6", "7", "8", "9">>

IsDecimalChar(ch) == \E i \in 1..10 : DecimalChars[i] = ch

DecimalOf(ch) == (CHOOSE i \in 1..10 : DecimalChars[i] = ch) - 1

\* ord() of a file letter or a digit, and chr(); int() of a digit
OrdOf(ch) ==
    IF IsFileChar(ch) THEN OrdA - 1 + (CHOOSE i \in 1..8 : FileChars[i] = ch)
    ELSE 48 + (CHOOSE i \in 1..8 : DigitChars[i] = ch)

ChrOf(code) == IF code >= OrdA THEN FileChars[code - OrdA + 1] ELSE DigitChars[code - 48]

IntOf(ch) == CHOOSE i \in 1..8 : DigitChars[i] = ch

\* Position.__str__
PosStr(pos) == <<ChrOf(Col(pos)), DecimalChars[Row(pos) + 1]>>

\* The squares update_legal_moves visits: a1 and its 63 successors.
RECURSIVE ScanFrom(_, _)
ScanFrom(pos, n) ==
    IF n = 0 \/ pos = None THEN <<>>
    ELSE <<pos>> \o ScanFrom(PosNext(pos), n - 1)

ScanSquares == ScanFrom(Position(OrdOf("a"), 1), 64)

Squares == {ScanSquares[i] : i \in 1..Len(ScanSquares)}

--------------------------------------------------------------------------
(* models/board.py: the grid *)

\* Python list indexing on a list of 8: negative indices count from the end.
InRange(i) == -BoardSize <= i /\ i < BoardSize

PyIndex(i) == IF i >= 0 THEN i + 1 ELSE BoardSize + i + 1

\* Board.__getitem__ raises IndexError exactly when GetRaises(pos)
GetRaises(pos) == ~(InRange(8 - Row(pos)) /\ InRange(col_to_int(Col(pos))))

BoardGet(g, pos) == g.matrix[PyIndex(8 - Row(pos))][PyIndex(col_to_int(Col(pos)))]

BoardSet(g, pos, piece) ==
    [g EXCEPT !.matrix[PyIndex(8 - Row(pos))][PyIndex(col_to_int(Col(pos)))] = piece]

BoardDel(g, pos) == BoardSet(g, pos, NoPiece)

is_valid(pos) == 1 <= Row(pos) /\ Row(pos) <= 8
                 /\ 1 <= col_to_int(Col(pos)) /\ col_to_int(Col(pos)) <= 8

\* Board.__iter__: the 64 cells, rank 8 first, files a to h
Cells(g) == [i \in 1..64 |-> g.matrix[((i - 1) \div 8) + 1][((i - 1) % 8) + 1]]

\* Board.pieces: the pieces in the grid, in that order
BoardPieces(g) == SelectSeq(Cells(g), LAMBDA c : c # NoPiece)

get_king(g, color) == g.kings[color]

--------------------------------------------------------------------------
(* models/piece.py, models/pieces/standard.py *)

Kinds == {"Pawn", "Knight", "Bishop", "Rook", "Queen", "King"}

\* Piece.__str__ (Knight overrides it): the FEN letter of a piece
KindLetter(kind) ==
    CASE kind = "Pawn" -> <<"P", "p">>
      [] kind = "Knight" -> <<"N", "n">>
      [] kind = "Bishop" -> <<"B", "b">>
      [] kind = "Rook" -> <<"R", "r">>
      [] kind = "Queen" -> <<"Q", "q">>
      [] kind = "King" -> <<"K", "k">>

PieceStr(p) == IF p.color = WHITE THEN KindLetter(p.kind)[1] ELSE KindLetter(p.kind)[2]

\* str(board[pos]) of the code, with "None" for an empty cell
CellStr(g, pos) ==
    IF BoardGet(g, pos) = NoPiece THEN "None" ELSE PieceStr(g.pieces[BoardGet(g, pos)])

\* Piece.can_move (the abstract base): false only for the piece's own square
BaseCanMove(p, pos) == p.pos # pos

\* "sqr is None or sqr.color != self.color"
EmptyOrEnemy(g, p, pos) ==
    BoardGet(g, pos) = NoPiece \/ g.pieces[BoardGet(g, pos)].color # p.color

\* Pawn.can_capture
PawnCanCapture(p, pos) ==
    IF p.color = WHITE
    THEN PosAdd(p.pos, <<1, 1>>) = pos \/ PosAdd(p.pos, <<-1, 1>>) = pos
    ELSE PosAdd(p.pos, <<1, -1>>) = pos \/ PosAdd(p.pos, <<-1, -1>>) = pos

\* Pawn.can_move
PawnCanMove(g, p, pos) ==
    IF BoardGet(g, pos) # NoPiece THEN PawnCanCapture(p, pos)
    ELSE IF p.color = WHITE
    THEN IF g.en_passant = pos
         THEN PosAdd(p.pos, <<1, 1>>) = pos \/ PosAdd(p.pos, <<-1, 1>>) = pos
         ELSE PosAdd(p.pos, <<0, 1>>) = pos
              \/ (PosAdd(p.pos, <<0, 2>>) = pos /\ Row(p.pos) = 2
                  /\ BoardGet(g, PosAdd(p.pos, <<0, 1>>)) = NoPiece)
    ELSE IF g.en_passant = pos
         THEN PosAdd(p.pos, <<1, -1>>) = pos \/ PosAdd(p.pos, <<-1, -1>>) = pos
         ELSE PosAdd(p.pos, <<0, -1>>) = pos
              \/ (PosAdd(p.pos, <<0, -2>>) = pos /\ Row(p.pos) = 7
                  /\ BoardGet(g, PosAdd(p.pos, <<0, -1>>)) = NoPiece)

\* Knight.can_move
KnightOffsets ==
    {<<1, 2>>, <<2, 1>>, <<2, -1>>, <<1, -2>>, <<-1, -2>>, <<-2, -1>>, <<-2, 1>>, <<-1, 2>>}

\* A knight that cannot jump: the square next to it, towards pos along the
\* longer leg, has to be empty
KnightCannotJump(g, p, pos) ==
    /\ PosDiff(pos, p.pos) \in KnightOffsets
    /\ BaseCanMove(p, pos)
    /\ EmptyOrEnemy(g, p, pos)
    /\ LET d == PosDiff(pos, p.pos)
       IN  BoardGet(g, PosAdd(p.pos, IF Abs(d[1]) = 2 THEN <<d[1] \div 2, 0>>
                                     ELSE <<0, d[2] \div 2>>)) = NoPiece

KnightCanMove(g, p, pos) ==
    /\ PosDiff(pos, p.pos) \in KnightOffsets
    /\ BaseCanMove(p, pos)
    /\ EmptyOrEnemy(g, p, pos)

Sign(x) == IF x > 0 THEN 1 ELSE IF x < 0 THEN -1 ELSE 0

\* Bishop.check_path
BishopCheckPath(g, p, pos) ==
    LET x == PosDiff(pos, p.pos)[1]
        y == PosDiff(pos, p.pos)[2]
        step_x == IF x > 0 THEN 1 ELSE -1
        step_y == IF y > 0 THEN 1 ELSE -1
    IN  /\ \A i \in 1..(Abs(x) - 1) :
              BoardGet(g, PosAdd(p.pos, <<i * step_x, i * step_y>>)) = NoPiece
        /\ EmptyOrEnemy(g, p, pos)

\* Bishop.can_move
BishopCanMove(g, p, pos) ==
    /\ BaseCanMove(p, pos)
    /\ Abs(PosDiff(pos, p.pos)[1]) = Abs(PosDiff(pos, p.pos)[2])
    /\ BishopCheckPath(g, p, pos)

\* Rook.check_path and Queen.check_path (the two bodies are the same)
LineCheckPath(g, p, pos) ==
    LET x == PosDiff(pos, p.pos)[1]
        y == PosDiff(pos, p.pos)[2]
        step_x == Sign(x)
        step_y == Sign(y)
    IN  /\ \A i \in 1..(Abs(x) - 1) :
              BoardGet(g, PosAdd(p.pos, <<i * step_x, i * step_y>>)) = NoPiece
        /\ \A i \in 1..(Abs(y) - 1) :
              BoardGet(g, PosAdd(p.pos, <<i * step_x, i * step_y>>)) = NoPiece
        /\ EmptyOrEnemy(g, p, pos)

\* Rook.can_move
RookCanMove(g, p, pos) ==
    /\ BaseCanMove(p, pos)
    /\ (PosDiff(pos, p.pos)[1] = 0 \/ PosDiff(pos, p.pos)[2] = 0)
    /\ LineCheckPath(g, p, pos)

\* A queen that passes over the pieces in her way
QueenJumps(g, p, pos) ==
    /\ BaseCanMove(p, pos)
    /\ (\/ PosDiff(pos, p.pos)[1] = 0
        \/ PosDiff(pos, p.pos)[2] = 0
        \/ Abs(PosDiff(pos, p.pos)[1]) = Abs(PosDiff(pos, p.pos)[2]))
    /\ EmptyOrEnemy(g, p, pos)

\* Queen.can_move
QueenCanMove(g, p, pos) ==
    /\ BaseCanMove(p, pos)
    /\ (\/ PosDiff(pos, p.pos)[1] = 0
        \/ PosDiff(pos, p.pos)[2] = 0
        \/ Abs(PosDiff(pos, p.pos)[1]) = Abs(PosDiff(pos, p.pos)[2]))
    /\ LineCheckPath(g, p, pos)

\* King.can_move
KingCanMove(g, p, pos) ==
    /\ BaseCanMove(p, pos)
    /\ Abs(PosDiff(pos, p.pos)[1]) <= 1
    /\ Abs(PosDiff(pos, p.pos)[2]) <= 1
    /\ EmptyOrEnemy(g, p, pos)

\* piece.can_move(board, pos), dispatched on the piece's class
CanMove(g, id, pos) ==
    LET p == g.pieces[id]
    IN  CASE p.kind = "Pawn" -> PawnCanMove(g, p, pos)
          [] p.kind = "Knight" -> KnightCanMove(g, p, pos)
          [] p.kind = "Bishop" -> BishopCanMove(g, p, pos)
          [] p.kind = "Rook" -> RookCanMove(g, p, pos)
          [] p.kind = "Queen" -> QueenCanMove(g, p, pos)
          [] p.kind = "King" -> KingCanMove(g, p, pos)

\* An attack test that asks pawns where they can move
is_attackedByMoves(g, pos, color) ==
    \E r, c \in 1..BoardSize :
        \E id \in {g.matrix[r][c]} :
            /\ id # NoPiece
            /\ g.pieces[id].color = color
            /\ CanMove(g, id, pos)

\* Board.is_attacked
is_attacked(g, pos, color) ==
    \E r, c \in 1..BoardSize :
        \E id \in {g.matrix[r][c]} :
            /\ id # NoPiece
            /\ g.pieces[id].color = color
            /\ IF g.pieces[id].kind = "Pawn"
               THEN PawnCanCapture(g.pieces[id], pos)
               ELSE CanMove(g, id, pos)

--------------------------------------------------------------------------
(* models/board.py: Board.move;  models/game_modes/standard.py: the probe *)

\* Piece.move
PieceMove(g, id, pos) == [g EXCEPT !.pieces[id].pos = pos]

\* King.castle: the king steps two files towards the rook, the rook lands
\* on the square the king passed over
KingCastle(g, id, rook) ==
    IF col_to_int(Col(g.pieces[rook].pos)) < col_to_int(Col(g.pieces[id].pos))
    THEN LET g1 == PieceMove(g, id, PosSub(g.pieces[id].pos, <<2, 0>>))
         IN  PieceMove(g1, rook, PosAdd(g1.pieces[id].pos, <<1, 0>>))
    ELSE LET g1 == PieceMove(g, id, PosAdd(g.pieces[id].pos, <<2, 0>>))
         IN  PieceMove(g1, rook, PosSub(g1.pieces[id].pos, <<1, 0>>))

\* Board.move, the test "isinstance(piece, King) and abs(diff) == 2"
IsCastlingMove(g, id, pos) ==
    g.pieces[id].kind = "King" /\ Abs(PosDiff(g.pieces[id].pos, pos)[1]) = 2

\* Board.move, the cell the castling rook is taken from
CastlingRookCell(g, pos) ==
    IF Col(pos) = OrdOf("g")
    THEN BoardGet(g, PosAdd(pos, <<1, 0>>))
    ELSE BoardGet(g, PosSub(pos, <<2, 0>>))

\* Board.move raises RuntimeError('Invalid castling ...')
BoardMoveRaises(g, id, pos) ==
    /\ IsCastlingMove(g, id, pos)
    /\ LET rook == CastlingRookCell(g, pos)
       IN  ~(/\ rook # NoPiece
             /\ g.pieces[rook].kind = "Rook"
             /\ g.pieces[rook].color = g.pieces[id].color)

\* A move that writes the destination cell and leaves the source cell as it was
BoardMoveKeepsSource(g, id, pos) ==
    BoardSet(PieceMove(g, id, pos), pos, id)

\* Board.move, when it does not raise
BoardMove(g, id, pos) ==
    IF IsCastlingMove(g, id, pos)
    THEN LET rook == CastlingRookCell(g, pos)
             castle_pos == Position(IF Col(pos) = OrdOf("g") THEN OrdOf("f") ELSE OrdOf("d"),
                                    Row(pos))
             g1 == BoardDel(g, g.pieces[id].pos)
             g2 == BoardDel(g1, g1.pieces[rook].pos)
             g3 == KingCastle(g2, id, rook)
             g4 == BoardSet(g3, castle_pos, rook)
         IN  BoardSet(g4, pos, id)
    ELSE LET g1 == BoardDel(g, g.pieces[id].pos)
             g2 == PieceMove(g1, id, pos)
         IN  BoardSet(g2, pos, id)

\* Game.change_turn
change_turn(g) == [g EXCEPT !.turn = IF g.turn = "b" THEN "w" ELSE "b"]

\* StandardGame.is_check: [res, game] = the answer and the game it leaves
is_check(g) ==
    LET color == COLOR_MAP[g.turn]
    IN  Let(change_turn(g), LAMBDA g1 :
            [res  |-> is_attacked(g1, g1.pieces[get_king(g1, color)].pos,
                                  COLOR_MAP[g1.turn]),
             game |-> change_turn(g1)])

\* A probe that moves the piece back and forgets the piece it had captured
ProbeRestoreNoPutBack(g, id, pos, previous_pos, piece_captured) ==
    BoardMove(g, id, previous_pos)

\* StandardGame.is_legal, the restoring tail: "self.board.move(piece,
\* previous_pos); self.board[pos] = piece_captured"
ProbeRestore(g, id, pos, previous_pos, piece_captured) ==
    BoardSet(BoardMove(g, id, previous_pos), pos, piece_captured)

\* StandardGame.is_legal: [res, game] = the answer and the game it leaves
is_legal(g, id, pos) ==
    IF ~CanMove(g, id, pos) THEN [res |-> FALSE, game |-> g]
    ELSE LET piece_captured == BoardGet(g, pos)
             previous_pos == g.pieces[id].pos
         IN  Let(BoardMove(g, id, pos), LAMBDA g1 :
                 Let(is_check(g1), LAMBDA chk :
                     [res  |-> ~chk.res,
                      game |-> ProbeRestore(chk.game, id, pos, previous_pos,
                                            piece_captured)]))

\* StandardGame.update_legal_moves, the body of the inner loop: one probe,
\* its square appended to the piece's legal moves when the answer is yes
ScanStep(g, id, pos) ==
    Let(is_legal(g, id, pos), LAMBDA r :
        IF r.res
        THEN [r.game EXCEPT !.pieces[id].legal_moves = Append(@, pos)]
        ELSE r.game)

\* StandardGame.update_legal_moves, the inner loop over the 64 squares
\* (squares lo..hi of the scan, in order: the first half, then the second)
RECURSIVE ScanPiece(_, _, _, _)
ScanPiece(g, id, lo, hi) ==
    IF lo = hi THEN ScanStep(g, id, ScanSquares[lo])
    ELSE Let(ScanPiece(g, id, lo, (lo + hi) \div 2),
             LAMBDA g1 : ScanPiece(g1, id, (lo + hi) \div 2 + 1, hi))

\* StandardGame.update_legal_moves, the outer loop over board.pieces
RECURSIVE UpdateEach(_, _, _)
UpdateEach(g, list, k) ==
    IF k > Len(list) THEN g
    ELSE IF g.pieces[list[k]].color # COLOR_MAP[g.turn]
         THEN UpdateEach(g, list, k + 1)
         ELSE Let(ScanPiece([g EXCEPT !.pieces[list[k]].legal_moves = <<>>], list[k],
                           1, Len(ScanSquares)),
                  LAMBDA g1 : UpdateEach(g1, list, k + 1))

update_legal_moves(g) == Let(BoardPieces(g), LAMBDA list : UpdateEach(g, list, 1))

--------------------------------------------------------------------------
(* models/board.py: FEN placement in and out *)

IsUpper(ch) == ch \in {"P", "N", "B", "R", "Q", "K"}

Lower(ch) ==
    CASE ch = "P" -> "p" [] ch = "N" -> "n" [] ch = "B" -> "b"
      [] ch = "R" -> "r" [] ch = "Q" -> "q" [] ch = "K" -> "k"
      [] OTHER -> ch

\* StandardGame.pieces_from_fen
pieces_from_fen(ch) ==
    CASE ch = "p" -> "Pawn" [] ch = "n" -> "Knight" [] ch = "b" -> "Bishop"
      [] ch = "r" -> "Rook" [] ch = "q" -> "Queen" [] ch = "k" -> "King"

EmptyBoard ==
    [matrix |-> [r \in 1..BoardSize |-> [c \in 1..BoardSize |-> NoPiece]],
     pieces |-> <<>>,
     kings  |-> [c \in {WHITE, BLACK} |-> NoPiece]]

\* fen.split('/'): the n-th row of the text
FenRow(fen, n) ==
    LET cuts == {0, Len(fen) + 1} \cup {k \in 1..Len(fen) : fen[k] = "/"}
        lo == CHOOSE a \in cuts : Cardinality({c \in cuts : c < a}) = n - 1
        hi == CHOOSE a \in cuts : Cardinality({c \in cuts : c < a}) = n
    IN  SubSeq(fen, lo + 1, hi - 1)

\* Board.load_fen, the inner loop: b is the board so far, fen_row the text of
\* the row r being filled, k the index of its next character, i_col the column
RECURSIVE LoadFrom(_, _, _, _, _)
LoadFrom(b, fen_row, k, r, i_col) ==
    IF k > Len(fen_row) THEN b
    ELSE IF IsDigitChar(fen_row[k])
         THEN LoadFrom(b, fen_row, k + 1, r, i_col + IntOf(fen_row[k]))
    ELSE LET id == Len(b.pieces) + 1
             piece == [kind        |-> pieces_from_fen(Lower(fen_row[k])),
                       color       |-> IF IsUpper(fen_row[k]) THEN WHITE ELSE BLACK,
                       pos         |-> Position(int_to_col(i_col), BoardSize - (r - 1)),
                       legal_moves |-> <<>>]
             b1 == [matrix |-> [b.matrix EXCEPT ![r][i_col + 1] = id],
                    pieces |-> Append(b.pieces, piece),
                    kings  |-> IF piece.kind = "King"
                               THEN [b.kings EXCEPT ![piece.color] = id]
                               ELSE b.kings]
         IN  Let(b1, LAMBDA b2 : LoadFrom(b2, fen_row, k + 1, r, i_col + 1))

\* Board.load_fen, the outer loop over zip(self.matrix, fen_list)
RECURSIVE LoadRows(_, _, _)
LoadRows(b, fen, r) ==
    IF r > BoardSize THEN b
    ELSE Let(LoadFrom(b, FenRow(fen, r), 1, r, 0), LAMBDA b1 : LoadRows(b1, fen, r + 1))

load_fen(fen) == LoadRows(EmptyBoard, fen, 1)

\* A row written with one digit for every empty cell
RECURSIVE RowReprUnits(_, _, _, _)
RowReprUnits(g, row, j, run) ==
    IF j > BoardSize THEN <<>>
    ELSE IF row[j] = NoPiece THEN <<"1">> \o RowReprUnits(g, row, j + 1, run)
    ELSE <<PieceStr(g.pieces[row[j]])>> \o RowReprUnits(g, row, j + 1, run)

\* Board.__repr__, one row: groupby turns each maximal run of empty cells
\* into its length and each piece into its letter
RECURSIVE RowRepr(_, _, _, _)
RowRepr(g, row, j, run) ==
    LET flush == IF run > 0 THEN <<DigitChars[run]>> ELSE <<>>
    IN  IF j > BoardSize THEN flush
        ELSE IF row[j] = NoPiece THEN RowRepr(g, row, j + 1, run + 1)
        ELSE flush \o <<PieceStr(g.pieces[row[j]])>> \o RowRepr(g, row, j + 1, 0)

RECURSIVE JoinRows(_, _)
JoinRows(g, r) ==
    IF r = BoardSize THEN RowRepr(g, g.matrix[r], 1, 0)
    ELSE RowRepr(g, g.matrix[r], 1, 0) \o <<"/">> \o JoinRows(g, r + 1)

\* Board.__repr__
BoardRepr(g) == JoinRows(g, 1)

--------------------------------------------------------------------------
(* models/game.py: properties, construction *)

\* Game.en_passant, the getter and the setter from text
EnPassantStr(g) == IF g.en_passant = None THEN <<"-">> ELSE PosStr(g.en_passant)

EnPassantFromStr(s) == IF s = <<"-">> THEN None ELSE Position(OrdOf(s[1]), DecimalOf(s[2]))

\* Python's "s in t" on text
IsSubstring(s, t) ==
    \E i \in 0..(Len(t) - Len(s)) : \A j \in 1..Len(s) : t[i + j] = s[j]

\* StandardGame.parse_fen, the assertions
FenAsserts(g) ==
    /\ IsSubstring(<<g.turn>>, <<"w", "b">>)
    /\ IsSubstring(g.castling, <<"K", "Q", "k", "q", "-">>)
    /\ IsSubstring(EnPassantStr(g), <<"-", "a", "b", "c", "d", "e", "f", "g", "h", "3", "6">>)
    /\ 0 <= g.halfmove_clock /\ g.halfmove_clock <= 150
    /\ 0 <= g.fullmove_number

\* StandardGame.parse_fen on the six fields of a FEN
parse_fen(fen) ==
    Let(load_fen(fen.placement), LAMBDA b :
        Let([matrix          |-> b.matrix,
             pieces          |-> b.pieces,
             kings           |-> b.kings,
             turn            |-> fen.turn,
             castling        |-> fen.castling,
             en_passant      |-> EnPassantFromStr(fen.en_passant),
             halfmove_clock  |-> fen.halfmove_clock,
             fullmove_number |-> fen.fullmove_number,
             move_history    |-> <<>>],
            LAMBDA g : update_legal_moves(g)))

--------------------------------------------------------------------------
(* models/pieces/standard.py: castling *)

IndexErrorMark == -1

\* King.get_rook: the first Rook met from the king's square in the castling
\* direction; NoPiece when the loop ends (None), IndexErrorMark when
\* board[pos_tmp] raises IndexError
RECURSIVE GetRookFrom(_, _, _)
GetRookFrom(g, pos_tmp, step) ==
    IF ~is_valid(pos_tmp) THEN NoPiece
    ELSE LET nxt == PosAdd(pos_tmp, step)
         IN  IF GetRaises(nxt) THEN IndexErrorMark
             ELSE IF BoardGet(g, nxt) # NoPiece /\ g.pieces[BoardGet(g, nxt)].kind = "Rook"
                  THEN BoardGet(g, nxt)
                  ELSE GetRookFrom(g, nxt, step)

OO == <<"O", "-", "O">>

OOO == <<"O", "-", "O", "-", "O">>

get_rook(g, id, castle_type) ==
    GetRookFrom(g, g.pieces[id].pos, IF castle_type = OO THEN <<1, 0>> ELSE <<-1, 0>>)

\* A king's loop that looks at the occupants of the path and not at attacks
RECURSIVE KingPathClearUnattacked(_, _, _, _, _)
KingPathClearUnattacked(g, pos_tmp_k, end_pos_k, step_k, enemy_color) ==
    IF ~(pos_tmp_k # end_pos_k /\ is_valid(pos_tmp_k)) THEN TRUE
    ELSE LET nxt == PosAdd(pos_tmp_k, step_k)
         IN  IF BoardGet(g, nxt) # NoPiece /\ g.pieces[BoardGet(g, nxt)].kind # "Rook"
             THEN FALSE
             ELSE KingPathClearUnattacked(g, nxt, end_pos_k, step_k, enemy_color)

\* King.check_castle_paths, the king's loop
RECURSIVE KingPathClear(_, _, _, _, _)
KingPathClear(g, pos_tmp_k, end_pos_k, step_k, enemy_color) ==
    IF ~(pos_tmp_k # end_pos_k /\ is_valid(pos_tmp_k)) THEN TRUE
    ELSE LET nxt == PosAdd(pos_tmp_k, step_k)
         IN  IF \/ (BoardGet(g, nxt) # NoPiece /\ g.pieces[BoardGet(g, nxt)].kind # "Rook")
                \/ is_attacked(g, nxt, enemy_color)
             THEN FALSE
             ELSE KingPathClear(g, nxt, end_pos_k, step_k, enemy_color)

\* King.check_castle_paths, the rook's loop
RECURSIVE RookPathClear(_, _, _, _)
RookPathClear(g, pos_tmp_r, end_pos_r, step_r) ==
    IF ~(pos_tmp_r # end_pos_r /\ is_valid(pos_tmp_r)) THEN TRUE
    ELSE LET nxt == PosAdd(pos_tmp_r, step_r)
         IN  IF BoardGet(g, nxt) # NoPiece /\ g.pieces[BoardGet(g, nxt)].kind # "King"
             THEN FALSE
             ELSE RookPathClear(g, nxt, end_pos_r, step_r)

\* King.check_castle_paths
check_castle_paths(g, id, rook, castle_type) ==
    LET king == g.pieces[id]
        end_pos_k == Position(IF castle_type = OO THEN OrdOf("g") ELSE OrdOf("c"), Row(king.pos))
        end_pos_r == IF castle_type = OO THEN PosSub(end_pos_k, <<1, 0>>)
                     ELSE PosAdd(end_pos_k, <<1, 0>>)
        step_k == <<Sign(Col(end_pos_k) - Col(king.pos)), 0>>
        step_r == <<Sign(Col(end_pos_r) - Col(g.pieces[rook].pos)), 0>>
        enemy_color == IF king.color = BLACK THEN WHITE ELSE BLACK
    IN  /\ KingPathClear(g, king.pos, end_pos_k, step_k, enemy_color)
        /\ RookPathClear(g, g.pieces[rook].pos, end_pos_r, step_r)

\* King.can_move for castling: King.can_castle, when get_rook does not raise
can_castle(g, id, castle_type) ==
    LET rook == get_rook(g, id, castle_type)
    IN  rook # NoPiece /\ check_castle_paths(g, id, rook, castle_type)

--------------------------------------------------------------------------
(* models/game.py: Game.parse_move *)

PieceLetters == {"N", "B", "R", "Q", "K"}

PromotionLetters == {"N", "B", "R", "Q"}

Has(m, ch) == \E i \in 1..Len(m) : m[i] = ch

\* re.match(r'^([NBRQK]?[a-h]?[1-8]?x?[a-h][1-8](=[NBRQ])?|O(-O){1,2})$', move)
MatchesMoveRegex(m) ==
    \/ m = OO
    \/ m = OOO
    \/ \E hasP, hasF, hasR, hasX, hasEq \in BOOLEAN :
          LET n(b) == IF b THEN 1 ELSE 0
              iF == n(hasP) + 1
              iR == iF + n(hasF)
              iX == iR + n(hasR)
              iD == iX + n(hasX)
          IN  /\ Len(m) = iD + 1 + (IF hasEq THEN 2 ELSE 0)
              /\ hasP => m[1] \in PieceLetters
              /\ hasF => IsFileChar(m[iF])
              /\ hasR => IsDigitChar(m[iR])
              /\ hasX => m[iX] = "x"
              /\ IsFileChar(m[iD])
              /\ IsDigitChar(m[iD + 1])
              /\ hasEq => (m[iD + 2] = "=" /\ m[iD + 3] \in PromotionLetters)

NoError == "none"

ParseError(err) ==
    [err |-> err, piece |-> NoPiece, pos |-> None, captured |-> NoPiece, promotion |-> ""]

\* Game.parse_move, the castling branch
ParseCastle(g, m) ==
    LET color == IF g.turn = "w" THEN WHITE ELSE BLACK
        piece == get_king(g, color)
        col == IF m = OO THEN OrdOf("g") ELSE OrdOf("c")
        row == IF g.turn = "w" THEN 1 ELSE 8
        castle_char == IF m = OO
                       THEN (IF g.turn = "w" THEN "K" ELSE "k")
                       ELSE (IF g.turn = "w" THEN "Q" ELSE "q")
    IN  IF ~Has(g.castling, castle_char) THEN ParseError("IllegalMoveError")
        ELSE IF get_rook(g, piece, m) = IndexErrorMark THEN ParseError("IndexError")
        ELSE IF ~can_castle(g, piece, m) \/ is_check(g).res
             THEN ParseError("IllegalMoveError")
             ELSE [err |-> NoError, piece |-> piece, pos |-> Position(col, row),
                   captured |-> NoPiece, promotion |-> ""]

\* Game.parse_move, "condicion": the disambiguation the text asks of the
\* moving piece's square p (m carries its piece letter; pos_index counts
\* from 1, as the sequences here do)
condicion(m, pos_index, p) ==
    IF pos_index = 2 THEN TRUE
    ELSE IF IsFileChar(m[2])
         THEN IF IsDigitChar(m[3])
              THEN Col(p) = OrdOf(m[2]) /\ Row(p) = IntOf(m[3])
              ELSE Col(p) = OrdOf(m[2])
         ELSE IF IsDigitChar(m[2]) THEN Row(p) = IntOf(m[2]) ELSE TRUE

\* Game.parse_move, the loop "for p in self": the first piece, in grid order,
\* of the given colour and letter that passes the disambiguation and has pos
\* among its legal moves
FindPiece(g, color, m, pos_index, pos) ==
    Let(BoardPieces(g), LAMBDA list :
        LET match(id) ==
                /\ g.pieces[id].color = color
                /\ KindLetter(g.pieces[id].kind)[1] = m[1]
                /\ condicion(m, pos_index, g.pieces[id].pos)
                /\ \E j \in 1..Len(g.pieces[id].legal_moves) :
                       g.pieces[id].legal_moves[j] = pos
        IN  IF \E i \in 1..Len(list) : match(list[i])
            THEN list[CHOOSE i \in 1..Len(list) :
                          match(list[i]) /\ \A k \in 1..(i - 1) : ~match(list[k])]
            ELSE NoPiece)

\* Game.parse_move, the branch of an ordinary move
ParseOrdinary(g, m0) ==
    LET color == IF g.turn = "w" THEN WHITE ELSE BLACK
        hasEq == Has(m0, "=")
        n0 == Len(m0)
        pos == IF hasEq THEN Position(OrdOf(m0[n0 - 3]), IntOf(m0[n0 - 2]))
               ELSE Position(OrdOf(m0[n0 - 1]), IntOf(m0[n0]))
        promotion == IF hasEq THEN pieces_from_fen(Lower(m0[n0])) ELSE ""
        named == m0[1] \in PieceLetters
        m == IF named THEN m0 ELSE <<"P">> \o m0
        pos_index == (IF hasEq THEN n0 - 4 ELSE n0 - 2) + (IF named THEN 0 ELSE 1) + 1
        piece == FindPiece(g, color, m, pos_index, pos)
        captured ==
            IF piece # NoPiece /\ g.pieces[piece].kind = "Pawn" /\ PosStr(pos) = EnPassantStr(g)
            THEN BoardGet(g, Position(Col(pos), IF g.turn = "w" THEN 5 ELSE 4))
            ELSE BoardGet(g, pos)
    IN  IF hasEq /\ named THEN ParseError("InvalidMoveInputError")
        ELSE IF hasEq /\ Row(pos) # 8 /\ Row(pos) # 1 THEN ParseError("InvalidMoveInputError")
        ELSE IF Has(m, "x") /\ captured = NoPiece THEN ParseError("InvalidMoveInputError")
        ELSE IF ~Has(m, "x") /\ captured # NoPiece THEN ParseError("InvalidMoveInputError")
        ELSE IF piece = NoPiece THEN ParseError("IllegalMoveError")
        ELSE [err |-> NoError, piece |-> piece, pos |-> pos,
              captured |-> captured, promotion |-> promotion]

\* Game.parse_move
parse_move(g, m) ==
    IF ~MatchesMoveRegex(m) THEN ParseError("InvalidMoveInputError")
    ELSE IF m[1] = "O" THEN ParseCastle(g, m)
    ELSE ParseOrdinary(g, m)

--------------------------------------------------------------------------
(* models/game_modes/standard.py: StandardGame.move and game_over *)

\* str.replace(ch, '') on the castling rights
Remove(str, ch) == SelectSeq(str, LAMBDA c : c # ch)

\* How a call ends: kind is "Constructed", "Committed", "GameOver" or the
\* name of the exception that left move()
Ended(kind) == [kind |-> kind, status |-> "", winner |-> ""]

GameOver(status, winner) == [kind |-> "GameOver", status |-> status, winner |-> winner]

\* A king move that leaves the castling rights as they were
KingCastlingKept(g, piece) == g

\* move(), "case King()": the rights the king's colour loses
KingCastlingUpdate(g, piece) ==
    IF g.pieces[piece].color = WHITE
    THEN [g EXCEPT !.castling = Remove(Remove(@, "K"), "Q")]
    ELSE [g EXCEPT !.castling = Remove(Remove(@, "k"), "q")]

\* A rook move that removes the right of the other wing
RookCastlingSwapped(g, previous_pos) ==
    IF previous_pos = Position(OrdOf("a"), 1) THEN [g EXCEPT !.castling = Remove(@, "K")]
    ELSE IF previous_pos = Position(OrdOf("h"), 1) THEN [g EXCEPT !.castling = Remove(@, "Q")]
    ELSE IF previous_pos = Position(OrdOf("a"), 8) THEN [g EXCEPT !.castling = Remove(@, "k")]
    ELSE IF previous_pos = Position(OrdOf("h"), 8) THEN [g EXCEPT !.castling = Remove(@, "q")]
    ELSE g

\* move(), "case Rook()": the right of the corner the rook leaves
RookCastlingUpdate(g, previous_pos) ==
    IF previous_pos = Position(OrdOf("a"), 1) THEN [g EXCEPT !.castling = Remove(@, "Q")]
    ELSE IF previous_pos = Position(OrdOf("h"), 1) THEN [g EXCEPT !.castling = Remove(@, "K")]
    ELSE IF previous_pos = Position(OrdOf("a"), 8) THEN [g EXCEPT !.castling = Remove(@, "q")]
    ELSE IF previous_pos = Position(OrdOf("h"), 8) THEN [g EXCEPT !.castling = Remove(@, "k")]
    ELSE g

\* An empty castling text replaced by all four rights
NormaliseCastlingToAll(g) ==
    IF g.castling = <<>> THEN [g EXCEPT !.castling = <<"K", "Q", "k", "q">>] ELSE g

\* move(): "if self.castling == '': self.castling = '-'"
NormaliseCastling(g) == IF g.castling = <<>> THEN [g EXCEPT !.castling = <<"-">>] ELSE g

\* move(), "case Pawn()", the test of the first branch once the advance is
\* known to be of two rows and board[pos + (1, 0)] not to raise
EnemyPawnBeside(g, piece, pos) ==
    LET chr_p == IF g.pieces[piece].color = BLACK THEN "P" ELSE "p"
    IN  \/ CellStr(g, PosAdd(pos, <<1, 0>>)) = chr_p
        \/ CellStr(g, PosAdd(pos, <<-1, 0>>)) = chr_p

\* move(), "case Pawn()", the first branch: the new en passant target
EnPassantTarget(g, piece, pos) ==
    IF g.pieces[piece].color = WHITE THEN PosAdd(pos, <<0, -1>>) ELSE PosAdd(pos, <<0, 1>>)

\* A promotion that leaves the pawn a pawn
PromoteKept(g, piece, kind) == g

\* Pawn.promote
Promote(g, piece, kind) == [g EXCEPT !.pieces[piece].kind = kind]

\* An en passant capture that leaves the captured pawn in the grid
EnPassantKeep(g, piece_captured) == g

\* move(), "case Pawn()", the third branch: the pawn taken en passant leaves
\* the grid
EnPassantRemove(g, piece_captured) == BoardDel(g, g.pieces[piece_captured].pos)

\* move(), the match statement: [err, game, en_passant_changed]
PieceStep(g, pr) ==
    LET piece == pr.piece
        pos == pr.pos
        previous_pos == g.pieces[piece].pos
        kind == g.pieces[piece].kind
        Done(game, changed) == [err |-> NoError, game |-> game, en_passant_changed |-> changed]
        Raise(err, game) == [err |-> err, game |-> game, en_passant_changed |-> FALSE]
    IN  CASE kind = "Pawn" ->
               LET g1 == [g EXCEPT !.halfmove_clock = 0]
                   two == Abs(Row(pos) - Row(previous_pos)) = 2
               IN  IF two /\ GetRaises(PosAdd(pos, <<1, 0>>)) THEN Raise("IndexError", g1)
                   ELSE IF two /\ EnemyPawnBeside(g1, piece, pos)
                        THEN Done([g1 EXCEPT !.en_passant = EnPassantTarget(g1, piece, pos)], TRUE)
                   ELSE IF Row(pos) = 1 \/ Row(pos) = 8
                        THEN IF pr.promotion = ""
                             THEN Raise("InvalidMoveInputError", g1)
                             ELSE Done(Promote(g1, piece, pr.promotion), FALSE)
                   ELSE IF PosStr(pos) = EnPassantStr(g1)
                        THEN IF pr.captured = NoPiece
                             THEN Raise("InvalidMoveInputError", g1)
                             ELSE Done(EnPassantRemove(g1, pr.captured), FALSE)
                   ELSE Done(g1, FALSE)
          [] kind = "King" -> Done(KingCastlingUpdate(g, piece), FALSE)
          [] kind = "Rook" -> Done(RookCastlingUpdate(g, previous_pos), FALSE)
          [] OTHER -> Done(g, FALSE)

\* A test that only finds a side without pieces out of moves
NoPieceToMove(g) ==
    \A r, c \in 1..BoardSize :
        \A id \in {g.matrix[r][c]} :
            id = NoPiece \/ g.pieces[id].color # COLOR_MAP[g.turn]

\* Game.legal_moves is empty
NoLegalMoves(g) ==
    \A r, c \in 1..BoardSize :
        \A id \in {g.matrix[r][c]} :
            (id # NoPiece /\ g.pieces[id].color = COLOR_MAP[g.turn])
                => g.pieces[id].legal_moves = <<>>

\* A repetition test that fires at the second occurrence
is_double_repetition(g) ==
    Cardinality({i \in 1..Len(g.move_history) :
                    g.move_history[i] = g.move_history[Len(g.move_history)]}) >= 2

\* Board.is_triple_repetition
is_triple_repetition(g) ==
    Cardinality({i \in 1..Len(g.move_history) :
                    g.move_history[i] = g.move_history[Len(g.move_history)]}) >= 3

\* A material test that only fires for two bare kings
is_bare_kings(g) ==
    \E ps \in {BoardPieces(g)} : \A i \in 1..Len(ps) : g.pieces[ps[i]].kind = "King"

\* Board.is_insufficient_material
is_insufficient_material(g) ==
    \E ps \in {BoardPieces(g)} :
        LET count(color) == Cardinality({i \in 1..Len(ps) : g.pieces[ps[i]].color = color})
        IN  /\ ~\E i \in 1..Len(ps) : g.pieces[ps[i]].kind \in {"Pawn", "Rook", "Queen"}
            /\ count(WHITE) <= 2
            /\ count(BLACK) <= 2

FiftyMoveLimit == 100

\* game_over with the repetition test ahead of the halfmove clock
game_overRepetitionFirst(g) ==
    IF NoLegalMoves(g)
    THEN Let(is_check(g), LAMBDA chk :
             IF chk.res
             THEN Let(change_turn(chk.game), LAMBDA g1 :
                      [game |-> g1, outcome |-> GameOver("CHECKMATE", COLOR_MAP[g1.turn])])
             ELSE [game |-> chk.game, outcome |-> GameOver("STALEMATE", "")])
    ELSE IF is_triple_repetition(g)
         THEN [game |-> g, outcome |-> GameOver("THREEFOLD_REPETITION", "")]
    ELSE IF g.halfmove_clock >= FiftyMoveLimit
         THEN [game |-> g, outcome |-> GameOver("FIFTY_MOVE_RULE", "")]
    ELSE IF is_insufficient_material(g)
         THEN [game |-> g, outcome |-> GameOver("INSUFFICIENT_MATERIAL", "")]
    ELSE [game |-> g, outcome |-> Ended("Committed")]

\* StandardGame.game_over: [game, outcome]
game_over(g) ==
    IF NoLegalMoves(g)
    THEN Let(is_check(g), LAMBDA chk :
             IF chk.res
             THEN Let(change_turn(chk.game), LAMBDA g1 :
                      [game |-> g1, outcome |-> GameOver("CHECKMATE", COLOR_MAP[g1.turn])])
             ELSE [game |-> chk.game, outcome |-> GameOver("STALEMATE", "")])
    ELSE IF g.halfmove_clock >= FiftyMoveLimit
         THEN [game |-> g, outcome |-> GameOver("FIFTY_MOVE_RULE", "")]
    ELSE IF is_triple_repetition(g)
         THEN [game |-> g, outcome |-> GameOver("THREEFOLD_REPETITION", "")]
    ELSE IF is_insufficient_material(g)
         THEN [game |-> g, outcome |-> GameOver("INSUFFICIENT_MATERIAL", "")]
    ELSE [game |-> g, outcome |-> Ended("Committed")]

\* move(): the text appended to the move history
Signature(g) == BoardRepr(g) \o <<g.turn>> \o g.castling \o EnPassantStr(g)

\* move(): "self.change_turn(); if self.turn == 'w': self.fullmove_number += 1"
NextTurn(g) ==
    Let(change_turn(g), LAMBDA g1 :
        IF g1.turn = "w" THEN [g1 EXCEPT !.fullmove_number = @ + 1] ELSE g1)

\* A capture that lets the halfmove clock run on
CaptureResetKept(g, piece_captured) == g

\* move(): "if piece_captured: self.halfmove_clock = 0"
CaptureReset(g, piece_captured) ==
    IF piece_captured # NoPiece THEN [g EXCEPT !.halfmove_clock = 0] ELSE g

\* move(), from "if not en_passant_changed" to the end, once board.move is
\* known not to raise
CommitTail(g, pr, en_passant_changed) ==
    Let(IF ~en_passant_changed THEN [g EXCEPT !.en_passant = None] ELSE g, LAMBDA g1 :
    Let(BoardMove(g1, pr.piece, pr.pos), LAMBDA g2 :
    Let(CaptureReset(g2, pr.captured), LAMBDA g3 :
    Let(NextTurn(NormaliseCastling(g3)), LAMBDA g6 :
    Let(update_legal_moves(g6), LAMBDA g7 :
    Let([g7 EXCEPT !.move_history = Append(@, Signature(g7))], LAMBDA g8 :
        game_over(g8)))))))

\* StandardGame.move: [game, outcome] = the game the call leaves and how it ends
move(g, m) ==
    Let(parse_move(g, m), LAMBDA pr :
        IF pr.err # NoError THEN [game |-> g, outcome |-> Ended(pr.err)]
        ELSE Let(PieceStep([g EXCEPT !.halfmove_clock = @ + 1], pr), LAMBDA st :
                 LET cleared == IF ~st.en_passant_changed
                                THEN [st.game EXCEPT !.en_passant = None] ELSE st.game
                 IN  IF st.err # NoError THEN [game |-> st.game, outcome |-> Ended(st.err)]
                     ELSE IF BoardMoveRaises(cleared, pr.piece, pr.pos)
                          THEN [game |-> cleared, outcome |-> Ended("RuntimeError")]
                          ELSE CommitTail(st.game, pr, st.en_passant_changed)))

--------------------------------------------------------------------------
(* The positions a game is constructed from and the move texts entered *)

\* k7/8/8/8/8/8/8/4K2R w K - 0 1
FenKingWalk ==
    [placement |-> <<"k", "7", "/",
                   "8", "/",
                   "8", "/",
                   "8", "/",
                   "8", "/",
                   "8", "/",
                   "8", "/",
                   "4", "K", "2", "R">>,
     turn |-> "w", castling |-> <<"K">>, en_passant |-> <<"-">>,
     halfmove_clock |-> 0, fullmove_number |-> 1]

\* r3k2r/8/8/8/8/8/8/R3K2R w KQkq - 0 3
FenCastles ==
    [placement |-> <<"r", "3", "k", "2", "r", "/",
                   "8", "/",
                   "8", "/",
                   "8", "/",
                   "8", "/",
                   "8", "/",
                   "8", "/",
                   "R", "3", "K", "2", "R">>,
     turn |-> "w", castling |-> <<"K", "Q", "k", "q">>, en_passant |-> <<"-">>,
     halfmove_clock |-> 0, fullmove_number |-> 3]

\* 7k/8/8/8/3p4/8/4P2P/K7 w - - 0 3
FenEnPassant ==
    [placement |-> <<"7", "k", "/",
                   "8", "/",
                   "8", "/",
                   "8", "/",
                   "3", "p", "4", "/",
                   "8", "/",
                   "4", "P", "2", "P", "/",
                   "K", "7">>,
     turn |-> "w", castling |-> <<"-">>, en_passant |-> <<"-">>,
     halfmove_clock |-> 0, fullmove_number |-> 3]

\* 8/8/8/3k4/5p2/8/4P3/K7 w - - 0 3
FenCheckByPawn ==
    [placement |-> <<"8", "/",
                   "8", "/",
                   "8", "/",
                   "3", "k", "4", "/",
                   "5", "p", "2", "/",
                   "8", "/",
                   "4", "P", "3", "/",
                   "K", "7">>,
     turn |-> "w", castling |-> <<"-">>, en_passant |-> <<"-">>,
     halfmove_clock |-> 0, fullmove_number |-> 3]

\* 7k/8/8/8/7p/8/P7/K7 w - - 0 3
FenEdgeFiles ==
    [placement |-> <<"7", "k", "/",
                   "8", "/",
                   "8", "/",
                   "8", "/",
                   "7", "p", "/",
                   "8", "/",
                   "P", "7", "/",
                   "K", "7">>,
     turn |-> "w", castling |-> <<"-">>, en_passant |-> <<"-">>,
     halfmove_clock |-> 0, fullmove_number |-> 3]

\* 7k/P7/8/8/8/3N4/2P5/K7 w - - 5 3
FenPromotion ==
    [placement |-> <<"7", "k", "/",
                   "P", "7", "/",
                   "8", "/",
                   "8", "/",
                   "8", "/",
                   "3", "N", "4", "/",
                   "2", "P", "5", "/",
                   "K", "7">>,
     turn |-> "w", castling |-> <<"-">>, en_passant |-> <<"-">>,
     halfmove_clock |-> 5, fullmove_number |-> 3]

\* 4k3/8/8/8/8/6nR/8/4K2R b K - 0 1
FenRookTaken ==
    [placement |-> <<"4", "k", "3", "/",
                   "8", "/",
                   "8", "/",
                   "8", "/",
                   "8", "/",
                   "6", "n", "R", "/",
                   "8", "/",
                   "4", "K", "2", "R">>,
     turn |-> "b", castling |-> <<"K">>, en_passant |-> <<"-">>,
     halfmove_clock |-> 0, fullmove_number |-> 1]

\* 4k3/8/8/8/8/8/6p1/RN2K2R w KQ - 0 3
FenBlockedWing ==
    [placement |-> <<"4", "k", "3", "/",
                   "8", "/",
                   "8", "/",
                   "8", "/",
                   "8", "/",
                   "8", "/",
                   "6", "p", "1", "/",
                   "R", "N", "2", "K", "2", "R">>,
     turn |-> "w", castling |-> <<"K", "Q">>, en_passant |-> <<"-">>,
     halfmove_clock |-> 0, fullmove_number |-> 3]

\* 4k3/8/8/8/8/8/8/4KR1R w K - 0 3
FenTwoRooks ==
    [placement |-> <<"4", "k", "3", "/",
                   "8", "/",
                   "8", "/",
                   "8", "/",
                   "8", "/",
                   "8", "/",
                   "8", "/",
                   "4", "K", "R", "1", "R">>,
     turn |-> "w", castling |-> <<"K">>, en_passant |-> <<"-">>,
     halfmove_clock |-> 0, fullmove_number |-> 3]

\* k7/8/1K6/8/8/8/8/7R w - - 0 3
FenMate ==
    [placement |-> <<"k", "7", "/",
                   "8", "/",
                   "1", "K", "6", "/",
                   "8", "/",
                   "8", "/",
                   "8", "/",
                   "8", "/",
                   "7", "R">>,
     turn |-> "w", castling |-> <<"-">>, en_passant |-> <<"-">>,
     halfmove_clock |-> 0, fullmove_number |-> 3]

InitFens ==
    {FenKingWalk, FenCastles, FenEnPassant, FenCheckByPawn, FenEdgeFiles, FenPromotion,
     FenRookTaken, FenBlockedWing, FenTwoRooks, FenMate}

Tokens ==
    {<<"K", "e", "2">>,
     <<"K", "e", "1">>,
     <<"K", "b", "8">>,
     <<"K", "a", "8">>,
     <<"K", "e", "7">>,
     <<"O", "-", "O">>,
     <<"O", "-", "O", "-", "O">>,
     <<"R", "g", "1">>,
     <<"R", "b", "1">>,
     <<"R", "g", "8">>,
     <<"R", "b", "8">>,
     <<"R", "x", "a", "8">>,
     <<"R", "x", "h", "8">>,
     <<"e", "4">>,
     <<"e", "3">>,
     <<"d", "x", "e", "3">>,
     <<"h", "4">>,
     <<"a", "4">>,
     <<"f", "x", "e", "3">>,
     <<"a", "8">>,
     <<"a", "8", "=", "Q">>,
     <<"c", "x", "d", "3">>,
     <<"Q", "h", "5">>,
     <<"e", "9">>,
     <<"N", "x", "h", "1">>,
     <<"R", "x", "h", "1">>,
     <<"R", "h", "8">>,
     <<"a", "8", "=", "N">>,
     <<"K", "b", "1", "=", "Q">>,
     <<"c", "3", "=", "N">>}

\* rnbqkbnr/pppppppp/8/8/8/8/PPPPPPPP/RNBQKBNR w KQkq - 0 1
FenStart ==
    [placement |-> <<"r", "n", "b", "q", "k", "b", "n", "r", "/",
                   "p", "p", "p", "p", "p", "p", "p", "p", "/",
                   "8", "/",
                   "8", "/",
                   "8", "/",
                   "8", "/",
                   "P", "P", "P", "P", "P", "P", "P", "P", "/",
                   "R", "N", "B", "Q", "K", "B", "N", "R">>,
     turn |-> "w", castling |-> <<"K", "Q", "k", "q">>, en_passant |-> <<"-">>,
     halfmove_clock |-> 0, fullmove_number |-> 1]

\* The kings can only step between the a and b files
\* k7/8/8/4p3/4P3/8/8/K7 w - - 0 1
FenShuffle ==
    [placement |-> <<"k", "7", "/",
                   "8", "/",
                   "8", "/",
                   "4", "p", "3", "/",
                   "4", "P", "3", "/",
                   "8", "/",
                   "8", "/",
                   "K", "7">>,
     turn |-> "w", castling |-> <<"-">>, en_passant |-> <<"-">>,
     halfmove_clock |-> 0, fullmove_number |-> 1]

\* The same, nine moves before the halfmove clock reaches its limit
\* k7/8/8/4p3/4P3/8/8/K7 w - - 91 1
FenShuffleLate ==
    [placement |-> <<"k", "7", "/",
                   "8", "/",
                   "8", "/",
                   "4", "p", "3", "/",
                   "4", "P", "3", "/",
                   "8", "/",
                   "8", "/",
                   "K", "7">>,
     turn |-> "w", castling |-> <<"-">>, en_passant |-> <<"-">>,
     halfmove_clock |-> 91, fullmove_number |-> 1]

\* A mate in one with the halfmove clock one below its limit
\* k7/8/1K6/8/8/8/8/7R w - - 99 5
FenMateLate ==
    [placement |-> <<"k", "7", "/",
                   "8", "/",
                   "1", "K", "6", "/",
                   "8", "/",
                   "8", "/",
                   "8", "/",
                   "8", "/",
                   "7", "R">>,
     turn |-> "w", castling |-> <<"-">>, en_passant |-> <<"-">>,
     halfmove_clock |-> 99, fullmove_number |-> 5]

\* A cornered king and a lone bishop, the clock one below its limit
\* k7/8/1K1B4/8/8/8/8/8 w - - 99 5
FenBishopCorner ==
    [placement |-> <<"k", "7", "/",
                   "8", "/",
                   "1", "K", "1", "B", "4", "/",
                   "8", "/",
                   "8", "/",
                   "8", "/",
                   "8", "/",
                   "8">>,
     turn |-> "w", castling |-> <<"-">>, en_passant |-> <<"-">>,
     halfmove_clock |-> 99, fullmove_number |-> 5]

\* King and bishop against king and bishop
\* 5b1k/8/8/8/8/8/8/K1B5 w - - 0 5
FenTwoBishops ==
    [placement |-> <<"5", "b", "1", "k", "/",
                   "8", "/",
                   "8", "/",
                   "8", "/",
                   "8", "/",
                   "8", "/",
                   "8", "/",
                   "K", "1", "B", "5">>,
     turn |-> "w", castling |-> <<"-">>, en_passant |-> <<"-">>,
     halfmove_clock |-> 0, fullmove_number |-> 5]

\* King and two knights against king
\* k7/8/8/8/8/8/8/1KNN4 w - - 0 5
FenTwoKnights ==
    [placement |-> <<"k", "7", "/",
                   "8", "/",
                   "8", "/",
                   "8", "/",
                   "8", "/",
                   "8", "/",
                   "8", "/",
                   "1", "K", "N", "N", "4">>,
     turn |-> "w", castling |-> <<"-">>, en_passant |-> <<"-">>,
     halfmove_clock |-> 0, fullmove_number |-> 5]

\* After b4 the king on a5 is in check and only the capture en passant answers it
\* 8/8/7R/k7/2p5/K1N5/1P6/8 w - - 0 5
FenPawnAnswer ==
    [placement |-> <<"8", "/",
                   "8", "/",
                   "7", "R", "/",
                   "k", "7", "/",
                   "2", "p", "5", "/",
                   "K", "1", "N", "5", "/",
                   "1", "P", "6", "/",
                   "8">>,
     turn |-> "w", castling |-> <<"-">>, en_passant |-> <<"-">>,
     halfmove_clock |-> 0, fullmove_number |-> 5]

EndFens ==
    {FenShuffle, FenShuffleLate, FenMateLate, FenBishopCorner, FenTwoBishops,
     FenTwoKnights, FenPawnAnswer}

\* The move texts entered in the endgames
EndTokens ==
    {<<"K", "b", "1">>,
     <<"K", "a", "1">>,
     <<"K", "b", "8">>,
     <<"K", "a", "8">>,
     <<"R", "h", "8">>,
     <<"R", "h", "7">>,
     <<"B", "c", "7">>,
     <<"B", "c", "5">>,
     <<"b", "4">>}

\* 8/8/8/8/R2p3k/8/4P3/K7 w - - 0 3
FenSharedRank ==
    [placement |-> <<"8", "/",
                   "8", "/",
                   "8", "/",
                   "8", "/",
                   "R", "2", "p", "3", "k", "/",
                   "8", "/",
                   "4", "P", "3", "/",
                   "K", "7">>,
     turn |-> "w", castling |-> <<"-">>, en_passant |-> <<"-">>,
     halfmove_clock |-> 0, fullmove_number |-> 3]

\* 8/8/8/8/R2n3k/8/4P3/K7 w - - 0 3
FenPinnedKnight ==
    [placement |-> <<"8", "/",
                   "8", "/",
                   "8", "/",
                   "8", "/",
                   "R", "2", "n", "3", "k", "/",
                   "8", "/",
                   "4", "P", "3", "/",
                   "K", "7">>,
     turn |-> "w", castling |-> <<"-">>, en_passant |-> <<"-">>,
     halfmove_clock |-> 0, fullmove_number |-> 3]

PinFens == {FenSharedRank, FenPinnedKnight}

\* The move texts entered in the games with a king and a rook on one rank
PinTokens ==
    {<<"e", "4">>,
     <<"e", "3">>,
     <<"d", "x", "e", "3">>,
     <<"d", "3">>,
     <<"N", "x", "e", "2">>,
     <<"N", "f", "5">>,
     <<"R", "x", "h", "4">>,
     <<"R", "x", "d", "4">>,
     <<"R", "a", "3">>,
     <<"K", "g", "5">>,
     <<"K", "b", "1">>}

\* The move texts entered in the games of king steps
ShuffleTokens ==
    {<<"K", "b", "1">>,
     <<"K", "a", "1">>,
     <<"K", "b", "8">>,
     <<"K", "a", "8">>,
     <<"K", "a", "2">>,
     <<"e", "5">>}

\* Placements: kings on e8 and e1; seven ranks; nine ranks; a letter that names
\* no piece; a king after eight empty squares; a rank of seven squares; a
\* rank of sixteen; a pawn after eight empty squares
FenPlacements ==
    {<<"4", "k", "3", "/", "8", "/", "8", "/", "8", "/", "8", "/", "8", "/", "8", "/", "4", "K", "3">>,
     <<"4", "k", "3", "/", "8", "/", "8", "/", "8", "/", "8", "/", "8", "/", "4", "K", "3">>,
     <<"4", "k", "3", "/", "8", "/", "8", "/", "8", "/", "8", "/", "8", "/", "8", "/", "8", "/", "4", "K", "3">>,
     <<"4", "k", "3", "/", "8", "/", "8", "/", "8", "/", "8", "/", "8", "/", "8", "/", "4", "X", "3">>,
     <<"4", "k", "3", "/", "8", "/", "8", "/", "8", "/", "8", "/", "8", "/", "8", "/", "8", "K">>,
     <<"4", "k", "3", "/", "7", "/", "8", "/", "8", "/", "8", "/", "8", "/", "8", "/", "4", "K", "3">>,
     <<"4", "k", "3", "/", "8", "8", "/", "8", "/", "8", "/", "8", "/", "8", "/", "8", "/", "4", "K", "3">>,
     <<"4", "k", "3", "/", "4", "4", "p", "/", "8", "/", "8", "/", "8", "/", "8", "/", "8", "/", "4", "K", "3">>}

\* Side fields
FenSides ==
    {<<"w">>,
     <<"b">>,
     <<"x">>}

\* Castling fields
FenRights ==
    {<<"-">>,
     <<"K", "Q", "k", "q">>,
     <<"K", "q">>,
     <<"k", "q">>,
     <<"x">>}

\* En passant fields
FenTargets ==
    {<<"-">>,
     <<"e", "3">>,
     <<"d", "6">>,
     <<"h", "3">>,
     <<"e", "9">>,
     <<"e">>}

\* Halfmove clock fields
FenHalfmoves ==
    {<<"0">>,
     <<"1", "5", "0">>,
     <<"1", "5", "1">>,
     <<"-", "1">>,
     <<"x">>}

\* Fullmove number fields
FenFullmoves ==
    {<<"1">>,
     <<"0">>,
     <<"-", "1">>,
     <<"x">>}

\* The texts StandardGame is constructed from, as the fields split() gives:
\* every combination of the fields above, a text without its last field and
\* a text with a field added
FenTexts ==
    (FenPlacements \X FenSides \X FenRights \X FenTargets \X FenHalfmoves \X FenFullmoves)
    \cup {<<<<"4", "k", "3", "/", "8", "/", "8", "/", "8", "/", "8", "/", "8", "/", "8", "/", "4", "K", "3">>, <<"w">>, <<"-">>, <<"-">>, <<"0">>>>,
          <<<<"4", "k", "3", "/", "8", "/", "8", "/", "8", "/", "8", "/", "8", "/", "8", "/", "4", "K", "3">>, <<"w">>, <<"-">>, <<"-">>, <<"0">>, <<"1">>, <<"1">>>>}

\* The move texts entered in the games from the standard starting position
StartTokens ==
    {<<"f", "3">>,
     <<"e", "5">>,
     <<"g", "4">>,
     <<"Q", "h", "4">>,
     <<"e", "4">>,
     <<"Q", "h", "5">>,
     <<"K", "e", "2">>,
     <<"N", "f", "3">>}

--------------------------------------------------------------------------
(* models/game_modes/standard.py: construction from the text of a FEN *)

\* int() accepts the text: decimal digits after an optional sign
IntAccepts(t) ==
    LET body == IF t # <<>> /\ t[1] \in {"-", "+"} THEN Tail(t) ELSE t
    IN  body # <<>> /\ \A i \in 1..Len(body) : IsDecimalChar(body[i])

\* The value of a text of decimal digits
RECURSIVE DecimalValue(_, _)
DecimalValue(t, n) ==
    IF n = 0 THEN 0 ELSE 10 * DecimalValue(t, n - 1) + DecimalOf(t[n])

\* int() of a text it accepts
IntValue(t) ==
    IF t[1] = "-" THEN -DecimalValue(Tail(t), Len(t) - 1)
    ELSE IF t[1] = "+" THEN DecimalValue(Tail(t), Len(t) - 1)
    ELSE DecimalValue(t, Len(t))

\* load_fen: re.match(r'^([1-8PpNnBbRrQqKk]{1,8}/){7}[1-8PpNnBbRrQqKk]{1,8}$', fen)
MatchesFenRegex(txt) ==
    LET cuts == {0, Len(txt) + 1} \cup {k \in 1..Len(txt) : txt[k] = "/"}
    IN  /\ Cardinality(cuts) = BoardSize + 1
        /\ \A k \in 1..Len(txt) :
               txt[k] = "/" \/ IsDigitChar(txt[k]) \/ IsUpper(txt[k])
               \/ txt[k] \in {"p", "n", "b", "r", "q", "k"}
        /\ \A a, b \in cuts :
               (a < b /\ ~\E c \in cuts : a < c /\ c < b) => (b - a - 1) \in 1..BoardSize

\* load_fen: the value of i_col when the character at index k is read
RECURSIVE ColumnAt(_, _)
ColumnAt(txt, k) ==
    IF k = 1 \/ txt[k - 1] = "/" THEN 0
    ELSE ColumnAt(txt, k - 1) + (IF IsDigitChar(txt[k - 1]) THEN IntOf(txt[k - 1]) ELSE 1)

\* load_fen: "row[i_col] = piece" raises IndexError
LoadRaisesIndexError(txt) ==
    \E k \in 1..Len(txt) :
        /\ txt[k] # "/"
        /\ ~IsDigitChar(txt[k])
        /\ ColumnAt(txt, k) >= BoardSize

\* The state of a program that holds no game
NoGame ==
    [matrix          |-> EmptyBoard.matrix,
     pieces          |-> <<>>,
     kings           |-> EmptyBoard.kings,
     turn            |-> "",
     castling        |-> <<>>,
     en_passant      |-> None,
     halfmove_clock  |-> 0,
     fullmove_number |-> 0,
     move_history    |-> <<>>]

\* StandardGame(start_fen): __post_init__ calls parse_fen on the text, given
\* here as the fields fen.split() returns. [game, outcome]: the game built, or
\* no game and the exception that left the constructor
StandardGame(fields) ==
    LET Fail(kind) == [game |-> NoGame, outcome |-> Ended(kind)]
        placement == fields[1]
        side == fields[2]
        rights == fields[3]
        target == fields[4]
    IN  IF Len(fields) # 6 THEN Fail("InvalidFenError")
        ELSE IF ~MatchesFenRegex(placement) THEN Fail("InvalidFenError")
        ELSE IF LoadRaisesIndexError(placement) THEN Fail("IndexError")
        ELSE IF target # <<"-">> /\ Len(target) < 2 THEN Fail("IndexError")
        ELSE IF target # <<"-">> /\ ~IntAccepts(<<target[2]>>) THEN Fail("InvalidFenError")
        ELSE IF ~IntAccepts(fields[5]) \/ ~IntAccepts(fields[6]) THEN Fail("InvalidFenError")
        \* update_legal_moves: COLOR_MAP[self.turn], evaluated for the first piece
        ELSE IF Len(side) # 1 \/ side[1] \notin DOMAIN COLOR_MAP
             THEN IF \E k \in 1..Len(placement) :
                         placement[k] # "/" /\ ~IsDigitChar(placement[k])
                  THEN Fail("KeyError")
                  ELSE Fail("InvalidFenError")
        ELSE Let(parse_fen([placement       |-> placement,
                            turn            |-> side[1],
                            castling        |-> rights,
                            en_passant      |-> target,
                            halfmove_clock  |-> IntValue(fields[5]),
                            fullmove_number |-> IntValue(fields[6])]),
                 LAMBDA g : IF FenAsserts(g)
                            THEN [game |-> g, outcome |-> Ended("Constructed")]
                            ELSE Fail("InvalidFenError"))

--------------------------------------------------------------------------
(* The state machine *)

\* The game object, as the operators above take it
Game ==
    [matrix          |-> matrix,
     pieces          |-> pieces,
     kings           |-> kings,
     turn            |-> turn,
     castling        |-> castling,
     en_passant      |-> en_passant,
     halfmove_clock  |-> halfmove_clock,
     fullmove_number |-> fullmove_number,
     move_history    |-> move_history]

\* The variables hold the game g
Holds(g) ==
    /\ matrix = g.matrix
    /\ pieces = g.pieces
    /\ kings = g.kings
    /\ turn = g.turn
    /\ castling = g.castling
    /\ en_passant = g.en_passant
    /\ halfmove_clock = g.halfmove_clock
    /\ fullmove_number = g.fullmove_number
    /\ move_history = g.move_history

\* StandardGame.__post_init__: the game parse_fen builds, when its
\* assertions pass
Init ==
    \E fen \in InitFens :
        \E g \in {parse_fen(fen)} :
            /\ FenAsserts(g)
            /\ Holds(g)
            /\ outcome = Ended("Constructed")
            /\ prev = g
            /\ input = <<>>
            /\ moved_kings = {}
            /\ moved_pieces = {}

Crashes == {"IndexError", "RuntimeError"}

\* play_game: the loop asks for moves until GameOver is raised; an exception
\* other than the two move errors ends the program
Playing == outcome.kind # "GameOver" /\ outcome.kind \notin Crashes

\* The colours whose king the call committed a move of
KingMovedBy(g, m, r) ==
    IF r.outcome.kind \in {"Committed", "GameOver"}
    THEN {g.pieces[id].color : id \in {i \in {parse_move(g, m).piece} :
                                            g.pieces[i].kind = "King"}}
    ELSE {}

\* The piece parse_move resolved, when the call committed its move
MovedBy(g, m, r) ==
    IF r.outcome.kind \in {"Committed", "GameOver"}
    THEN {parse_move(g, m).piece}
    ELSE {}

\* game.move(res): the call and what it leaves in the game
GameMove(m) ==
    \E g \in {Game} : \E r \in {move(g, m)} :
        /\ matrix' = r.game.matrix
        /\ pieces' = r.game.pieces
        /\ kings' = r.game.kings
        /\ turn' = r.game.turn
        /\ castling' = r.game.castling
        /\ en_passant' = r.game.en_passant
        /\ halfmove_clock' = r.game.halfmove_clock
        /\ fullmove_number' = r.game.fullmove_number
        /\ move_history' = r.game.move_history
        /\ outcome' = r.outcome
        /\ prev' = g
        /\ input' = m
        /\ moved_kings' = moved_kings \cup KingMovedBy(g, m, r)
        /\ moved_pieces' = moved_pieces \cup MovedBy(g, m, r)

\* get_next_move: game.move(res) on the text entered, while play_game loops
Call(m) == Playing /\ GameMove(m)

\* The games played from the scenarios
Move(m) == fullmove_number < MaxFullmove /\ Call(m)

Next == \E m \in Tokens : Move(m)

Spec == Init /\ [][Next]_vars

\* StandardGame(): the game built from the default start_fen
InitStart ==
    \E g \in {parse_fen(FenStart)} :
        /\ FenAsserts(g)
        /\ Holds(g)
        /\ outcome = Ended("Constructed")
        /\ prev = g
        /\ input = <<>>
        /\ moved_kings = {}
        /\ moved_pieces = {}

\* The games played from the standard starting position
StartMove(m) == fullmove_number < MaxStartFullmove /\ Call(m)

NextStart == \E m \in StartTokens : StartMove(m)

SpecStart == InitStart /\ [][NextStart]_vars

\* StandardGame(fen) for the endgames
InitEnd ==
    \E fen \in EndFens :
        \E g \in {parse_fen(fen)} :
            /\ FenAsserts(g)
            /\ Holds(g)
            /\ outcome = Ended("Constructed")
            /\ prev = g
            /\ input = <<>>
            /\ moved_kings = {}
            /\ moved_pieces = {}

\* The games played from the endgames
EndMove(m) == fullmove_number < MaxEndFullmove /\ Call(m)

NextEnd == \E m \in EndTokens : EndMove(m)

SpecEnd == InitEnd /\ [][NextEnd]_vars

\* game.move(res) on an endgame, also after the game has signalled GameOver
AfterMove(m) ==
    /\ fullmove_number < MaxAfterFullmove
    /\ outcome.kind \notin Crashes
    /\ GameMove(m)

NextAfter == \E m \in EndTokens : AfterMove(m)

SpecAfter == InitEnd /\ [][NextAfter]_vars

\* StandardGame(fen) for the games with a king and a rook on one rank
InitPin ==
    \E fen \in PinFens :
        \E g \in {parse_fen(fen)} :
            /\ FenAsserts(g)
            /\ Holds(g)
            /\ outcome = Ended("Constructed")
            /\ prev = g
            /\ input = <<>>
            /\ moved_kings = {}
            /\ moved_pieces = {}

\* The games played from them
PinMove(m) == fullmove_number < MaxPinFullmove /\ Call(m)

NextPin == \E m \in PinTokens : PinMove(m)

SpecPin == InitPin /\ [][NextPin]_vars

\* StandardGame(fen) for the kings that step to and fro
InitShuffle ==
    \E g \in {parse_fen(FenShuffle)} :
        /\ FenAsserts(g)
        /\ Holds(g)
        /\ outcome = Ended("Constructed")
        /\ prev = g
        /\ input = <<>>
        /\ moved_kings = {}
        /\ moved_pieces = {}

\* The games played from it
ShuffleMove(m) == fullmove_number < MaxShuffleFullmove /\ Call(m)

NextShuffle == \E m \in ShuffleTokens : ShuffleMove(m)

SpecShuffle == InitShuffle /\ [][NextShuffle]_vars

\* Before StandardGame(fen) is called there is no game
InitFen ==
    /\ Holds(NoGame)
    /\ outcome = Ended("NotConstructed")
    /\ prev = NoGame
    /\ input = <<>>
    /\ moved_kings = {}
    /\ moved_pieces = {}

\* StandardGame(fen)
Construct(fen) ==
    /\ outcome.kind = "NotConstructed"
    /\ \E r \in {StandardGame(fen)} :
           /\ matrix' = r.game.matrix
           /\ pieces' = r.game.pieces
           /\ kings' = r.game.kings
           /\ turn' = r.game.turn
           /\ castling' = r.game.castling
           /\ en_passant' = r.game.en_passant
           /\ halfmove_clock' = r.game.halfmove_clock
           /\ fullmove_number' = r.game.fullmove_number
           /\ move_history' = r.game.move_history
           /\ outcome' = r.outcome
           /\ prev' = r.game
           /\ input' = fen
           /\ UNCHANGED <<moved_kings, moved_pieces>>

NextFen == \E fen \in FenTexts : Construct(fen)

SpecFen == InitFen /\ [][NextFen]_vars

\* The positions given to is_valid: the board and a margin around it
ProbePositions ==
    {Position(col, row) : col \in (OrdOf("a") - MaxOffBoard)..(OrdOf("h") + MaxOffBoard),
                          row \in (1 - MaxOffBoard)..(BoardSize + MaxOffBoard)}

\* What a call of is_valid returns
Returned(b) == [kind |-> "Returned", status |-> IF b THEN "True" ELSE "False", winner |-> ""]

\* Board().is_valid(pos) on a board with no piece
IsValidCall(pos) ==
    /\ outcome' = Returned(is_valid(pos))
    /\ input' = pos
    /\ UNCHANGED <<matrix, pieces, kings, turn, castling, en_passant, halfmove_clock,
                   fullmove_number, move_history, prev, moved_kings, moved_pieces>>

NextValid == \E pos \in ProbePositions : IsValidCall(pos)

SpecValid == InitFen /\ [][NextValid]_vars

--------------------------------------------------------------------------
(* Properties *)

\* What a probe must leave alone: the grid, every piece's recorded position,
\* the side to move, the castling rights and the en passant target
ProbeView(g) ==
    [matrix     |-> g.matrix,
     positions  |-> [i \in DOMAIN g.pieces |-> g.pieces[i].pos],
     turn       |-> g.turn,
     castling   |-> g.castling,
     en_passant |-> g.en_passant]

\* The complete game state: grid, piece kinds and positions, side to move,
\* castling rights, en passant target, both counters and the move history
StateView(g) ==
    [matrix          |-> g.matrix,
     kinds           |-> [i \in DOMAIN g.pieces |-> g.pieces[i].kind],
     positions       |-> [i \in DOMAIN g.pieces |-> g.pieces[i].pos],
     turn            |-> g.turn,
     castling        |-> g.castling,
     en_passant      |-> g.en_passant,
     halfmove_clock  |-> g.halfmove_clock,
     fullmove_number |-> g.fullmove_number,
     move_history    |-> g.move_history]

\* The pieces standing in the grid
OnBoard(g) == {g.matrix[r][c] : r, c \in 1..BoardSize} \ {NoPiece}

Rejections == {"InvalidMoveInputError", "IllegalMoveError"}

\* C1: in every reachable state, for every piece on the board and every
\* square a1..h8, the legality probe is_legal, whatever it answers, leaves
\* the grid, every recorded position, the side to move, the castling rights
\* and the en passant target as they were before the probe.
C1_ProbeAtomic ==
    \E g \in {Game} :
        \A id \in OnBoard(g) : \A d \in Squares :
            ProbeView(is_legal(g, id, d).game) = ProbeView(g)

\* C1 witness: a state in which some probe answers yes for a capture, so
\* the probe has moved a piece onto an occupied square and back
C1_Witness ==
    \E g \in {Game} :
        /\ outcome.kind = "Committed"
        /\ \E id \in OnBoard(g) : \E d \in Squares :
               /\ BoardGet(g, d) # NoPiece
               /\ is_legal(g, id, d).res

\* C2: whenever move(m) is rejected with InvalidMoveInput or IllegalMove,
\* the complete game state equals the state before the call, on every
\* rejection path, those raised inside the commit step included.
C2_RejectedUnchanged ==
    outcome.kind \in Rejections => StateView(Game) = StateView(prev)

\* The position committing the move of piece id to d produces: the pawn
\* captured en passant leaves the board, then the piece moves
AfterCommit(g, id, d) ==
    LET p == g.pieces[id]
        en_passant_capture == p.kind = "Pawn" /\ g.en_passant = d /\ PawnCanCapture(p, d)
        g1 == IF en_passant_capture THEN BoardDel(g, Position(Col(d), Row(p.pos))) ELSE g
    IN  BoardMove(g1, id, d)

\* The king of the piece's colour is not attacked once the move is committed
KingSafeAfter(g, id, d) ==
    \E h \in {AfterCommit(g, id, d)} :
        LET color == g.pieces[id].color
            enemy == IF color = WHITE THEN BLACK ELSE WHITE
        IN  ~is_attacked(h, h.pieces[get_king(h, color)].pos, enemy)

\* The squares in the cached legal moves of a piece
Cached(g, id) == {g.pieces[id].legal_moves[i] : i \in 1..Len(g.pieces[id].legal_moves)}

\* C3: after construction and after every committed move, the cached legal
\* destinations of every piece of the side to move are exactly the squares d
\* the piece can move to such that, in the position the commit would
\* produce (the pawn captured en passant removed), its king is not attacked.
C3_CachedLegalExact ==
    outcome.kind \in {"Constructed", "Committed"} =>
        \E g \in {Game} :
            \A id \in OnBoard(g) :
                g.pieces[id].color = COLOR_MAP[g.turn] =>
                    Cached(g, id) = {d \in Squares : CanMove(g, id, d) /\ KingSafeAfter(g, id, d)}

\* The square dx files and dy ranks ahead of a pawn, ahead being up the
\* board for White and down for Black
Ahead(p, dx, dy) == PosAdd(p.pos, <<dx, IF p.color = WHITE THEN dy ELSE -dy>>)

Empty(g, pos) == BoardGet(g, pos) = NoPiece

\* The three cases in which a pawn may move to d
PawnRule(g, p, d) ==
    \/ d = Ahead(p, 0, 1) /\ Empty(g, d)
    \/ /\ d = Ahead(p, 0, 2)
       /\ Row(p.pos) = (IF p.color = WHITE THEN 2 ELSE 7)
       /\ Empty(g, Ahead(p, 0, 1))
       /\ Empty(g, d)
    \/ /\ d \in {Ahead(p, 1, 1), Ahead(p, -1, 1)}
       /\ \/ ~Empty(g, d) /\ g.pieces[BoardGet(g, d)].color # p.color
          \/ g.en_passant = d

\* C4: Pawn.can_move(board, d) is true exactly for the forward square when
\* empty, the square two ahead from the starting rank when it and the square
\* between are empty, and a forward diagonal that holds an enemy piece or is
\* the en passant target; it is false for a diagonal holding an own piece.
C4_PawnCanMoveExact ==
    \E g \in {Game} :
        \A id \in OnBoard(g) : \A d \in Squares :
            g.pieces[id].kind = "Pawn" =>
                (PawnCanMove(g, g.pieces[id], d) <=> PawnRule(g, g.pieces[id], d))

\* C5: move(m) ends in one of: committed, committed with GameOver
\* signalled, rejected with InvalidMoveInput, rejected with IllegalMove; no
\* other failure occurs, two-square advances on the a- and h-files and
\* castling tokens included.
C5_OutcomesClosed ==
    outcome.kind \in {"Constructed", "Committed", "GameOver"} \cup Rejections

\* The last call committed a move
Committed == outcome.kind \in {"Committed", "GameOver"}

\* The piece the last call moved and the square it moved to
Moved == parse_move(prev, input)

\* The last committed move was a pawn's advance of two ranks
TwoSquareAdvance(pr) ==
    /\ prev.pieces[pr.piece].kind = "Pawn"
    /\ Abs(Row(pr.pos) - Row(prev.pieces[pr.piece].pos)) = 2

\* An enemy pawn stands beside pos: same rank, a file next to it within a..h
EnemyPawnAdjacent(g, color, pos) ==
    \E dx \in {-1, 1} :
        /\ Col(pos) + dx \in OrdOf("a")..OrdOf("h")
        /\ \E id \in {BoardGet(g, Position(Col(pos) + dx, Row(pos)))} :
               /\ id # NoPiece
               /\ g.pieces[id].kind = "Pawn"
               /\ g.pieces[id].color # color

\* C6: after every committed move the en passant target is the square
\* behind the moved pawn when the move was a two-square pawn advance with an
\* enemy pawn on an adjacent file (no wrap-around between a and h) of the
\* destination rank, and none in every other case.
C6_EnPassantTargetExact ==
    Committed =>
        \E pr \in {Moved} :
            LET color == prev.pieces[pr.piece].color
                behind == Position(Col(pr.pos),
                                   IF color = WHITE THEN Row(pr.pos) - 1 ELSE Row(pr.pos) + 1)
            IN  en_passant = IF TwoSquareAdvance(pr) /\ EnemyPawnAdjacent(prev, color, pr.pos)
                             THEN behind
                             ELSE None

\* The last committed move was a pawn landing on the recorded target
LandedOnTarget(pr) ==
    /\ prev.pieces[pr.piece].kind = "Pawn"
    /\ prev.en_passant = pr.pos

\* C7: when a pawn's committed move lands on the recorded en passant
\* target, the enemy pawn one rank behind the target (the target's file, the
\* rank the capturing pawn came from) is removed, the target square holds
\* the capturing pawn, and no other piece is removed.
C7_EnPassantCapture ==
    Committed =>
        \E pr \in {Moved} :
            LandedOnTarget(pr) =>
                \E victim \in {BoardGet(prev, Position(Col(pr.pos),
                                                       Row(prev.pieces[pr.piece].pos)))} :
                    /\ victim # NoPiece
                    /\ prev.pieces[victim].kind = "Pawn"
                    /\ prev.pieces[victim].color # prev.pieces[pr.piece].color
                    /\ OnBoard(Game) = OnBoard(prev) \ {victim}
                    /\ BoardGet(Game, pr.pos) = pr.piece

\* C7 witness: an en passant capture has been committed
C7_Witness == Committed /\ LandedOnTarget(Moved)

\* The castling rights of a game, as a set of letters
Rights(g) == {g.castling[i] : i \in 1..Len(g.castling)} \ {"-"}

\* The rights a committed move of the piece from the square src takes away
RightsLost(kind, color, src) ==
    IF kind = "King" THEN (IF color = WHITE THEN {"K", "Q"} ELSE {"k", "q"})
    ELSE IF kind # "Rook" THEN {}
    ELSE IF src = Position(OrdOf("a"), 1) THEN {"Q"}
    ELSE IF src = Position(OrdOf("h"), 1) THEN {"K"}
    ELSE IF src = Position(OrdOf("a"), 8) THEN {"q"}
    ELSE IF src = Position(OrdOf("h"), 8) THEN {"k"}
    ELSE {}

\* C8: a committed king move (castling included) removes both rights of the
\* king's colour; a committed rook move from a1, h1, a8 or h8 removes the
\* right Q, K, q or k of that corner; every other committed move leaves the
\* castling rights unchanged.
C8_CastlingRightsUpdate ==
    Committed =>
        \E p \in {prev.pieces[Moved.piece]} :
            Rights(Game) = Rights(prev) \ RightsLost(p.kind, p.color, p.pos)

\* C8 witness: a rook has left its corner and taken exactly that right away
C8_Witness ==
    /\ Committed
    /\ prev.pieces[Moved.piece].kind = "Rook"
    /\ Rights(prev) \ Rights(Game) \in {{"K"}, {"Q"}, {"k"}, {"q"}}

\* C9: castling rights never come back: a right absent in a state is absent
\* in every later state of the game.
C9_RightsMonotone ==
    [][\A r \in {"K", "Q", "k", "q"} : ~Has(castling, r) => ~Has(castling', r)]_vars

\* C9 witness: a game that has lost its last castling right and gone on
C9_Witness ==
    /\ Committed
    /\ Rights(prev) = {}
    /\ \E i \in 1..Len(move_history) : Has(move_history[i], "K")

\* C10: once a side's king has made a committed move, every O-O and O-O-O
\* of that side is rejected, the king back on its original square and the
\* rooks on their corners or not.
C10_NoCastlingAfterKingMove ==
    COLOR_MAP[turn] \in moved_kings =>
        \E g \in {Game} :
            \A m \in {OO, OOO} : move(g, m).outcome.kind \in Rejections

\* C10 witness: White's king has moved and come back to e1, the rook stands
\* on h1, and O-O has just been refused
C10_Witness ==
    /\ WHITE \in moved_kings
    /\ turn = "w"
    /\ pieces[kings[WHITE]].pos = Position(OrdOf("e"), 1)
    /\ \E id \in {BoardGet(Game, Position(OrdOf("h"), 1))} :
           id # NoPiece /\ pieces[id].kind = "Rook" /\ pieces[id].color = WHITE
    /\ BoardGet(Game, Position(OrdOf("f"), 1)) = NoPiece
    /\ BoardGet(Game, Position(OrdOf("g"), 1)) = NoPiece
    /\ input = OO
    /\ outcome.kind = "IllegalMoveError"

\* The last call was a castling token and its move was committed
CastlingCommitted == Committed /\ input \in {OO, OOO}

\* The corner of the home rank the token's rook starts from
CastlingCorner ==
    Position(IF input = OO THEN OrdOf("h") ELSE OrdOf("a"),
             IF prev.turn = "w" THEN 1 ELSE 8)

\* The piece that stood on that corner when the call started
CornerPiece == BoardGet(prev, CastlingCorner)

\* C11: whenever a castling move is accepted, the piece on the corner the
\* token names (h-file for O-O, a-file for O-O-O, home rank) is a rook of the
\* mover's colour that no earlier committed move has moved
C11_CastlingRookOriginal ==
    CastlingCommitted =>
        /\ CornerPiece # NoPiece
        /\ prev.pieces[CornerPiece].kind = "Rook"
        /\ prev.pieces[CornerPiece].color = COLOR_MAP[prev.turn]
        /\ CornerPiece \notin moved_pieces

\* The square of the mover's king when the call started
KingSquare == prev.pieces[get_king(prev, COLOR_MAP[prev.turn])].pos

\* The squares of the home rank strictly between the king and the corner
BetweenKingAndCorner ==
    {Position(int_to_col(n), Row(KingSquare)) : n \in
        {i \in 0..(BoardSize - 1) :
            \/ col_to_int(Col(KingSquare)) < i /\ i < col_to_int(Col(CastlingCorner))
            \/ col_to_int(Col(CastlingCorner)) < i /\ i < col_to_int(Col(KingSquare))}}

\* C12: a castling move is accepted only if every square strictly between
\* the king and the corner rook was empty when the move was given
C12_CastlingPathEmpty ==
    CastlingCommitted =>
        \A sq \in BetweenKingAndCorner : BoardGet(prev, sq) = NoPiece

\* The squares strictly between two squares of one rank, file or diagonal
StrictlyBetween(from, to) ==
    LET dx == PosDiff(to, from)[1]
        dy == PosDiff(to, from)[2]
        n == IF Abs(dx) > Abs(dy) THEN Abs(dx) ELSE Abs(dy)
    IN  {PosAdd(from, <<k * Sign(dx), k * Sign(dy)>>) : k \in 1..(n - 1)}

\* The rules of chess: the piece p attacks the square sq on the board of g
Attacks(g, p, sq) ==
    LET dx == PosDiff(sq, p.pos)[1]
        dy == PosDiff(sq, p.pos)[2]
        straight == (dx = 0) # (dy = 0)
        diagonal == dx # 0 /\ Abs(dx) = Abs(dy)
        open == \A s \in StrictlyBetween(p.pos, sq) : BoardGet(g, s) = NoPiece
    IN  CASE p.kind = "Pawn"   -> Abs(dx) = 1 /\ dy = (IF p.color = WHITE THEN 1 ELSE -1)
          [] p.kind = "Knight" -> {Abs(dx), Abs(dy)} = {1, 2}
          [] p.kind = "King"   -> Abs(dx) <= 1 /\ Abs(dy) <= 1 /\ <<dx, dy>> # <<0, 0>>
          [] p.kind = "Rook"   -> straight /\ open
          [] p.kind = "Bishop" -> diagonal /\ open
          [] p.kind = "Queen"  -> (straight \/ diagonal) /\ open

\* Some piece of the colour, standing on the board of g, attacks sq
AttackedBy(g, sq, color) ==
    \E s \in Squares :
        /\ BoardGet(g, s) # NoPiece
        /\ g.pieces[BoardGet(g, s)].color = color
        /\ Attacks(g, g.pieces[BoardGet(g, s)], sq)

\* The square the king of a castling move lands on
CastlingLanding ==
    Position(IF input = OO THEN OrdOf("g") ELSE OrdOf("c"), Row(KingSquare))

\* The king's own square, the squares it passes over and the one it lands on
KingTravel == {KingSquare, CastlingLanding} \cup StrictlyBetween(KingSquare, CastlingLanding)

\* The colour of the side that did not give the last move
Opponent == COLOR_MAP[IF prev.turn = "w" THEN "b" ELSE "w"]

\* C13: a castling move is accepted only if no opponent piece attacks the
\* king's square, the square it passes through or the square it lands on
\* (a pawn attacks its two diagonal capture squares)
C13_CastlingNotThroughAttack ==
    CastlingCommitted =>
        \A sq \in KingTravel : ~AttackedBy(prev, sq, Opponent)

\* A castling move is accepted while the opponent attacks some other square
\* of the king's rank
C13_Witness ==
    /\ CastlingCommitted
    /\ \E sq \in Squares : Row(sq) = Row(KingSquare) /\ AttackedBy(prev, sq, Opponent)

\* The square of the board of g the piece stands on
SquareOf(g, id) == CHOOSE s \in Squares : BoardGet(g, s) = id

\* The pieces that stand on the board before and after the last call, on
\* different squares
Relocated ==
    {id \in OnBoard(prev) \cap OnBoard(Game) :
        SquareOf(Game, id) # SquareOf(prev, id)}

\* The square the rook of a castling move lands on
CastlingRookLanding ==
    Position(IF input = OO THEN OrdOf("f") ELSE OrdOf("d"), Row(KingSquare))

\* A committed castling move has put the king and the corner rook on their
\* landing squares, emptied the two squares they came from, left every other
\* square as it was and kept the number of pieces
CastlingRelocatesTwo ==
    /\ BoardGet(Game, CastlingLanding) = get_king(prev, COLOR_MAP[prev.turn])
    /\ BoardGet(Game, CastlingRookLanding) = CornerPiece
    /\ BoardGet(Game, KingSquare) = NoPiece
    /\ BoardGet(Game, CastlingCorner) = NoPiece
    /\ \A s \in Squares \ {KingSquare, CastlingCorner, CastlingLanding, CastlingRookLanding} :
           BoardGet(Game, s) = BoardGet(prev, s)
    /\ Cardinality(OnBoard(Game)) = Cardinality(OnBoard(prev))

\* C14: a committed castling move relocates exactly the king and the
\* castling rook and keeps the number of pieces on the board; any other
\* committed move changes the position of at most one piece
C14_CastlingRelocatesTwo ==
    Committed =>
        IF input \in {OO, OOO}
        THEN CastlingRelocatesTwo /\ Cardinality(Relocated) = 2
        ELSE Cardinality(Relocated) <= 1

\* The castling right the token asks for: K, Q for White and k, q for Black
CastleChar ==
    IF prev.turn = "w" THEN (IF input = OO THEN "K" ELSE "Q")
    ELSE (IF input = OO THEN "k" ELSE "q")

\* A rook of the mover's colour stands on the corner the token names
OwnRookOnCorner ==
    /\ CornerPiece # NoPiece
    /\ prev.pieces[CornerPiece].kind = "Rook"
    /\ prev.pieces[CornerPiece].color = COLOR_MAP[prev.turn]

\* C15: a castling token given in a state where a castling clause is
\* violated is rejected with IllegalMove and leaves the state unchanged; the
\* clause taken here is the one the statement names: the right is still
\* recorded and no rook of the mover's colour stands on the corner
C15_CastlingRefused ==
    (input \in {OO, OOO} /\ Has(prev.castling, CastleChar) /\ ~OwnRookOnCorner) =>
        /\ outcome.kind = "IllegalMoveError"
        /\ StateView(Game) = StateView(prev)

\* The text carries a promotion suffix "=X"
HasPromotion(m) == Len(m) >= 4 /\ m[Len(m) - 1] = "="

\* The kind a promotion letter stands for
PromotionKind(ch) ==
    CASE ch = "N" -> "Knight" [] ch = "B" -> "Bishop"
      [] ch = "R" -> "Rook"   [] ch = "Q" -> "Queen"

\* The rank the text names as destination: the digit before the suffix, or
\* the last character
DestinationRank(m) == IF HasPromotion(m) THEN m[Len(m) - 2] ELSE m[Len(m)]

\* The last call's text resolves to a pawn of the side to move that may
\* legally go to a square of rank 1 or 8
PawnReachesLastRank ==
    /\ MatchesMoveRegex(input)
    /\ input[1] \notin PieceLetters \cup {"O"}
    /\ DestinationRank(input) \in {"1", "8"}
    /\ Moved.piece # NoPiece

\* C16: a pawn move ending on rank 1 or 8 is committed only with a promotion
\* kind N, B, R or Q, and then the piece on the destination square has that
\* kind and the pawn's colour; without a promotion kind it is rejected with
\* InvalidMoveInput; a promotion suffix on a move of a non-pawn or on a
\* destination off ranks 1 and 8 is rejected with InvalidMoveInput
C16_Promotion ==
    /\ (Committed /\ PawnReachesLastRank) =>
           /\ HasPromotion(input)
           /\ input[Len(input)] \in PromotionLetters
           /\ \E id \in {BoardGet(Game, Moved.pos)} :
                  /\ id = Moved.piece
                  /\ pieces[id].kind = PromotionKind(input[Len(input)])
                  /\ pieces[id].color = prev.pieces[id].color
                  /\ prev.pieces[id].kind = "Pawn"
    /\ (PawnReachesLastRank /\ ~HasPromotion(input)) =>
           outcome.kind = "InvalidMoveInputError"
    /\ (/\ Len(input) > 0
        /\ HasPromotion(input)
        /\ input[1] \in PieceLetters \/ DestinationRank(input) \notin {"1", "8"}) =>
           outcome.kind = "InvalidMoveInputError"

\* A pawn has been promoted to a knight: a8=N was committed and a white
\* knight stands on a8
C16_Witness ==
    /\ Committed
    /\ input = <<"a", "8", "=", "N">>
    /\ \E id \in {BoardGet(Game, Position(OrdOf("a"), 8))} :
           /\ id # NoPiece
           /\ pieces[id].kind = "Knight"
           /\ pieces[id].color = WHITE
           /\ prev.pieces[id].kind = "Pawn"

\* The text without its promotion suffix, its capture marker and its piece
\* letter: an optional file, an optional rank, then the destination square
Core(m) ==
    LET body == IF HasPromotion(m) THEN SubSeq(m, 1, Len(m) - 2) ELSE m
        unmarked == SelectSeq(body, LAMBDA ch : ch # "x")
    IN  IF unmarked[1] \in PieceLetters THEN Tail(unmarked) ELSE unmarked

\* The letter of the kind the text names: its first character, P for a pawn
NamedLetter(m) == IF m[1] \in PieceLetters THEN m[1] ELSE "P"

\* The destination square the text names
Destination(m) == Position(OrdOf(Core(m)[Len(Core(m)) - 1]), IntOf(Core(m)[Len(Core(m))]))

\* The square sq agrees with the file and rank the text gives for the mover
Disambiguated(m, sq) ==
    \A i \in 1..(Len(Core(m)) - 2) :
        /\ IsFileChar(Core(m)[i]) => Col(sq) = OrdOf(Core(m)[i])
        /\ IsDigitChar(Core(m)[i]) => Row(sq) = IntOf(Core(m)[i])

\* The pieces of the side to move that match the text of the last call: the
\* kind, the disambiguation, and the destination among their legal moves
Candidates ==
    {id \in OnBoard(prev) :
        /\ prev.pieces[id].color = COLOR_MAP[prev.turn]
        /\ KindLetter(prev.pieces[id].kind)[1] = NamedLetter(input)
        /\ Disambiguated(input, prev.pieces[id].pos)
        /\ \E j \in 1..Len(prev.pieces[id].legal_moves) :
               prev.pieces[id].legal_moves[j] = Destination(input)}

\* C17: a non-castling move is committed only if exactly one piece of the
\* side to move matches its kind, its disambiguation and has the destination
\* in its legal moves
C17_ResolutionUnique ==
    (Committed /\ input \notin {OO, OOO}) => Cardinality(Candidates) = 1

\* The last call was given a well-formed token of an ordinary move whose
\* destination is a square of the board
OrdinaryToken ==
    /\ MatchesMoveRegex(input)
    /\ input \notin {OO, OOO}
    /\ ~(HasPromotion(input) /\ input[1] \in PieceLetters)
    /\ ~(HasPromotion(input) /\ DestinationRank(input) \notin {"1", "8"})

\* The move the token describes captures: its destination is occupied, or it
\* is a pawn's move onto the en passant target
TokenCaptures ==
    \/ BoardGet(prev, Destination(input)) # NoPiece
    \/ /\ NamedLetter(input) = "P"
       /\ prev.en_passant = Destination(input)
       /\ Candidates # {}

\* The last call took a piece off the board
PieceRemoved == OnBoard(Game) # OnBoard(prev)

\* C18: an ordinary token that carries 'x' while its move captures nothing,
\* or lacks 'x' while its move captures, is rejected with InvalidMoveInput;
\* a committed move removes a piece if and only if its token contained 'x'
C18_CaptureMarker ==
    /\ (OrdinaryToken /\ (Has(input, "x") # TokenCaptures)) =>
           outcome.kind = "InvalidMoveInputError"
    /\ Committed => (PieceRemoved <=> Has(input, "x"))

\* The last committed move took a piece of the opponent off the board
Captured ==
    \E id \in OnBoard(prev) \ OnBoard(Game) : prev.pieces[id].color = Opponent

\* The piece the last committed move named was a pawn when the move was given
PawnMoved == prev.pieces[Moved.piece].kind = "Pawn"

\* C19: after every committed move the halfmove clock is 0 if the moved
\* piece was a pawn (a promoting pawn included) or the move captured a piece
\* (en passant included), and the previous value plus 1 otherwise
C19_HalfmoveClock ==
    Committed =>
        halfmove_clock = IF PawnMoved \/ Captured THEN 0 ELSE prev.halfmove_clock + 1

\* A piece other than a pawn has captured while the clock stood above 0, and
\* the clock is back at 0
C19_Witness ==
    /\ Committed
    /\ ~PawnMoved
    /\ Captured
    /\ prev.halfmove_clock > 0
    /\ halfmove_clock = 0

\* C20: every committed move flips the side to move and no rejected move
\* changes it; the fullmove number goes up by exactly 1 on each committed
\* move by Black and stays on each committed move by White
C20_TurnAndFullmove ==
    /\ Committed => turn = (IF prev.turn = "w" THEN "b" ELSE "w")
    /\ outcome.kind \in Rejections => turn = prev.turn
    /\ Committed =>
           fullmove_number = prev.fullmove_number + (IF prev.turn = "b" THEN 1 ELSE 0)

\* Game.legal_moves, as pairs: one per piece of the side to move and per
\* entry of its cached legal moves
LegalPairs(g) ==
    {pr \in OnBoard(g) \X (1..BoardSize * BoardSize) :
        /\ g.pieces[pr[1]].color = COLOR_MAP[g.turn]
        /\ pr[2] <= Len(g.pieces[pr[1]].legal_moves)}

\* The pairs of the pieces of one kind
LegalPairsOf(g, kind) == {pr \in LegalPairs(g) : g.pieces[pr[1]].kind = kind}

\* The pairs name that many different (piece, destination) moves
DistinctMoves(g) ==
    Cardinality({<<pr[1], g.pieces[pr[1]].legal_moves[pr[2]]>> : pr \in LegalPairs(g)})

\* The game is the one just constructed from the standard starting FEN
AtStart == outcome.kind = "Constructed" /\ Signature(Game) = Signature(parse_fen(FenStart))

\* C25: the game constructed from the standard starting FEN reports exactly
\* 20 legal moves for White: 16 of pawns and 4 of knights
C25_TwentyMoves ==
    AtStart =>
        \E g \in {Game} :
            /\ g.turn = "w"
            /\ Cardinality(LegalPairs(g)) = 20
            /\ DistinctMoves(g) = 20
            /\ Cardinality(LegalPairsOf(g, "Pawn")) = 16
            /\ Cardinality(LegalPairsOf(g, "Knight")) = 4

\* The constructed starting position: 32 pieces, White to move
C25_Witness ==
    /\ AtStart
    /\ Cardinality(OnBoard(Game)) = 32
    /\ turn = "w"
    /\ fullmove_number = 1


--------------------------------------------------------------------------
(* The fool's mate *)

\* rnbqkbnr/pppppppp/8/8/8/8/PPPPPPPP/RNBQKBNR
BoardStart ==
    <<"r", "n", "b", "q", "k", "b", "n", "r", "/", "p", "p", "p", "p",
      "p", "p", "p", "p", "/", "8", "/", "8", "/", "8", "/", "8", "/",
      "P", "P", "P", "P", "P", "P", "P", "P", "/", "R", "N", "B", "Q",
      "K", "B", "N", "R">>

\* rnbqkbnr/pppppppp/8/8/8/5P2/PPPPP1PP/RNBQKBNR
BoardF3 ==
    <<"r", "n", "b", "q", "k", "b", "n", "r", "/", "p", "p", "p", "p",
      "p", "p", "p", "p", "/", "8", "/", "8", "/", "8", "/", "5", "P",
      "2", "/", "P", "P", "P", "P", "P", "1", "P", "P", "/", "R", "N",
      "B", "Q", "K", "B", "N", "R">>

\* rnbqkbnr/pppp1ppp/8/4p3/8/5P2/PPPPP1PP/RNBQKBNR
BoardF3E5 ==
    <<"r", "n", "b", "q", "k", "b", "n", "r", "/", "p", "p", "p", "p",
      "1", "p", "p", "p", "/", "8", "/", "4", "p", "3", "/", "8", "/",
      "5", "P", "2", "/", "P", "P", "P", "P", "P", "1", "P", "P", "/",
      "R", "N", "B", "Q", "K", "B", "N", "R">>

\* rnbqkbnr/pppp1ppp/8/4p3/6P1/5P2/PPPPP2P/RNBQKBNR
BoardF3E5G4 ==
    <<"r", "n", "b", "q", "k", "b", "n", "r", "/", "p", "p", "p", "p",
      "1", "p", "p", "p", "/", "8", "/", "4", "p", "3", "/", "6", "P",
      "1", "/", "5", "P", "2", "/", "P", "P", "P", "P", "P", "2", "P",
      "/", "R", "N", "B", "Q", "K", "B", "N", "R">>

\* rnb1kbnr/pppp1ppp/8/4p3/6Pq/5P2/PPPPP2P/RNBQKBNR
BoardFoolsMate ==
    <<"r", "n", "b", "1", "k", "b", "n", "r", "/", "p", "p", "p", "p",
      "1", "p", "p", "p", "/", "8", "/", "4", "p", "3", "/", "6", "P",
      "q", "/", "5", "P", "2", "/", "P", "P", "P", "P", "P", "2", "P",
      "/", "R", "N", "B", "Q", "K", "B", "N", "R">>

\* The call was game.move(m) on a game holding the placement before after
\* n committed moves
Played(before, n, m) ==
    /\ outcome.kind # "Constructed"
    /\ BoardRepr(prev) = before
    /\ Len(prev.move_history) = n
    /\ input = m

\* C26: from the standard starting position f3, e5 and g4 are committed
\* without GameOver, and Qh4 after them is committed and ends the game with
\* checkmate, won by Black
C26_FoolsMate ==
    /\ Played(BoardStart, 0, <<"f", "3">>)
         => outcome = Ended("Committed") /\ BoardRepr(Game) = BoardF3
    /\ Played(BoardF3, 1, <<"e", "5">>)
         => outcome = Ended("Committed") /\ BoardRepr(Game) = BoardF3E5
    /\ Played(BoardF3E5, 2, <<"g", "4">>)
         => outcome = Ended("Committed") /\ BoardRepr(Game) = BoardF3E5G4
    /\ Played(BoardF3E5G4, 3, <<"Q", "h", "4">>)
         => /\ outcome = GameOver("CHECKMATE", BLACK)
            /\ BoardRepr(Game) = BoardFoolsMate
            /\ Len(move_history) = 4

C26_Witness ==
    /\ Played(BoardF3E5G4, 3, <<"Q", "h", "4">>)
    /\ outcome.kind = "GameOver"
    /\ BoardRepr(Game) = BoardFoolsMate

--------------------------------------------------------------------------
(* The queen's sortie *)

\* rnbqkbnr/pppppppp/8/8/4P3/8/PPPP1PPP/RNBQKBNR
BoardE4 ==
    <<"r", "n", "b", "q", "k", "b", "n", "r", "/", "p", "p", "p", "p",
      "p", "p", "p", "p", "/", "8", "/", "8", "/", "4", "P", "3", "/",
      "8", "/", "P", "P", "P", "P", "1", "P", "P", "P", "/", "R", "N",
      "B", "Q", "K", "B", "N", "R">>

\* rnbqkbnr/pppp1ppp/8/4p3/4P3/8/PPPP1PPP/RNBQKBNR
BoardE4E5 ==
    <<"r", "n", "b", "q", "k", "b", "n", "r", "/", "p", "p", "p", "p",
      "1", "p", "p", "p", "/", "8", "/", "4", "p", "3", "/", "4", "P",
      "3", "/", "8", "/", "P", "P", "P", "P", "1", "P", "P", "P", "/",
      "R", "N", "B", "Q", "K", "B", "N", "R">>

\* rnbqkbnr/pppp1ppp/8/4p2Q/4P3/8/PPPP1PPP/RNB1KBNR
BoardE4E5Qh5 ==
    <<"r", "n", "b", "q", "k", "b", "n", "r", "/", "p", "p", "p", "p",
      "1", "p", "p", "p", "/", "8", "/", "4", "p", "2", "Q", "/", "4",
      "P", "3", "/", "8", "/", "P", "P", "P", "P", "1", "P", "P", "P",
      "/", "R", "N", "B", "1", "K", "B", "N", "R">>

\* The statement of C27 as the specification words it: Qh5 after e4 and e5 is
\* rejected and leaves the state as it was
C27_QueenSortieRejected ==
    Played(BoardE4E5, 2, <<"Q", "h", "5">>)
        => outcome.kind \in Rejections /\ StateView(Game) = StateView(prev)

\* C27: Qh5 given on the standard starting position is rejected with
\* IllegalMove and the state is unchanged; Qh5 given after e4 and e5 have been
\* committed is committed: the queen stands on h5, Black is to move and the
\* halfmove clock counts one
C27_QueenSortie ==
    /\ Played(BoardStart, 0, <<"Q", "h", "5">>)
         => outcome.kind = "IllegalMoveError" /\ StateView(Game) = StateView(prev)
    /\ Played(BoardE4E5, 2, <<"Q", "h", "5">>)
         => /\ outcome = Ended("Committed")
            /\ BoardRepr(Game) = BoardE4E5Qh5
            /\ turn = "b"
            /\ halfmove_clock = 1
            /\ fullmove_number = 2
            /\ Len(move_history) = 3

C27_Witness ==
    /\ Played(BoardE4E5, 2, <<"Q", "h", "5">>)
    /\ BoardRepr(Game) = BoardE4E5Qh5
    /\ outcome.kind = "Committed"

--------------------------------------------------------------------------
(* The placement text *)

\* The squares a rank of a placement text describes, "." for an empty one
RECURSIVE ExpandRank(_, _)
ExpandRank(txt, k) ==
    IF k > Len(txt) \/ txt[k] = "/" THEN <<>>
    ELSE IF IsDigitChar(txt[k])
         THEN [i \in 1..IntOf(txt[k]) |-> "."] \o ExpandRank(txt, k + 1)
         ELSE <<txt[k]>> \o ExpandRank(txt, k + 1)

\* The index of the first character of the n-th rank of a placement text
RankStart(txt, n) ==
    IF n = 1 THEN 1
    ELSE 1 + CHOOSE k \in 1..Len(txt) :
                 /\ txt[k] = "/"
                 /\ Cardinality({i \in 1..k : txt[i] = "/"}) = n - 1

\* The letter of the piece standing on a square according to the pieces'
\* recorded positions, "." when no piece on the board records the square
LetterOn(g, pos) ==
    IF \E id \in OnBoard(g) : g.pieces[id].pos = pos
    THEN LET p == g.pieces[CHOOSE id \in OnBoard(g) : g.pieces[id].pos = pos]
             white == CASE p.kind = "Pawn" -> "P" [] p.kind = "Knight" -> "N"
                        [] p.kind = "Bishop" -> "B" [] p.kind = "Rook" -> "R"
                        [] p.kind = "Queen" -> "Q" [] p.kind = "King" -> "K"
         IN  IF p.color = WHITE THEN white ELSE Lower(white)
    ELSE "."

\* The kind and colour standing in a cell of a grid
CellContent(b, r, c) ==
    IF b.matrix[r][c] = NoPiece THEN <<>>
    ELSE <<b.pieces[b.matrix[r][c]].kind, b.pieces[b.matrix[r][c]].color>>

\* C28: in the starting position and every position reached from it, the
\* text of the board loaded into a fresh board gives the same kind and colour
\* on every square, and the fresh board's text is the same text; the text
\* has eight ranks, from rank 8 down to rank 1, each of eight squares, and no
\* two digits stand side by side
C28_FenRoundTrip ==
    \E g \in {Game} :
        \E txt \in {BoardRepr(g)} :
            /\ Cardinality({k \in 1..Len(txt) : txt[k] = "/"}) = BoardSize - 1
            /\ \A k \in 1..(Len(txt) - 1) :
                   ~(IsDigitChar(txt[k]) /\ IsDigitChar(txt[k + 1]))
            /\ \A n \in 1..BoardSize :
                   \E sq \in {ExpandRank(txt, RankStart(txt, n))} :
                       /\ Len(sq) = BoardSize
                       /\ \A c \in 1..BoardSize :
                              sq[c] = LetterOn(g, Position(int_to_col(c - 1),
                                                           BoardSize + 1 - n))
            /\ \E b \in {load_fen(txt)} :
                   /\ \A r, c \in 1..BoardSize :
                          CellContent(b, r, c) = CellContent(g, r, c)
                   /\ BoardRepr(b) = txt

\* C28 witness: a position reached by committed moves whose text has a rank
\* with two runs of empty squares around a piece and one ending with a piece
C28_Witness ==
    /\ outcome.kind = "Committed"
    /\ Len(move_history) = 3
    /\ BoardRepr(Game) = BoardE4E5Qh5
    /\ BoardRepr(load_fen(BoardRepr(Game))) = BoardE4E5Qh5

--------------------------------------------------------------------------
(* The end of the game *)

\* The pieces of the side that has to answer the last committed move
Answering == {id \in OnBoard(Game) : pieces[id].color = Opponent}

\* The list of legal moves of that side is empty
NoAnswerListed == \A id \in Answering : pieces[id].legal_moves = <<>>

\* The halfmove clock has reached a hundred
ClockExpired == halfmove_clock >= 100

\* The signature recorded last stands at least three times in the history
Repeated ==
    /\ move_history # <<>>
    /\ \E i, j, k \in 1..Len(move_history) :
           /\ i < j /\ j < k /\ k = Len(move_history)
           /\ move_history[i] = move_history[k]
           /\ move_history[j] = move_history[k]

\* No pawn, rook or queen stands on the board and neither side has more than
\* two pieces
FewPieces ==
    /\ \A id \in OnBoard(Game) : pieces[id].kind \in {"King", "Knight", "Bishop"}
    /\ \A color \in {WHITE, BLACK} :
           Cardinality({id \in OnBoard(Game) : pieces[id].color = color}) <= 2

\* The statuses the first condition that holds, in the order of game_over,
\* allows; none when no condition holds
FirstMatch ==
    IF NoAnswerListed THEN {"CHECKMATE", "STALEMATE"}
    ELSE IF ClockExpired THEN {"FIFTY_MOVE_RULE"}
    ELSE IF Repeated THEN {"THREEFOLD_REPETITION"}
    ELSE IF FewPieces THEN {"INSUFFICIENT_MATERIAL"}
    ELSE {}

AnsweringKing == pieces[get_king(Game, Opponent)].pos

\* The colour of the side that gave the last move
Mover == COLOR_MAP[prev.turn]

\* By the rules of chess the piece may go to d in the position reached: it
\* can move there, and with the move made (the pawn taken en passant
\* removed) no piece of the mover attacks the answering side's king
TrueAnswerOf(id, d) ==
    /\ CanMove(Game, id, d)
    /\ \E h \in {AfterCommit(Game, id, d)} :
           ~AttackedBy(h, h.pieces[get_king(h, Opponent)].pos, Mover)

\* The side that has to answer has a legal move
TrueAnswer == \E id \in Answering : \E d \in Squares : TrueAnswerOf(id, d)

\* C22: after a committed move that leaves the side to move without a legal
\* move, Checkmate won by the mover is signalled when that side's king is
\* attacked and Stalemate without a winner otherwise; neither is signalled
\* while the side to move has a legal move
C22_MateOrStalemate ==
    Committed =>
        /\ ~TrueAnswer =>
              IF AttackedBy(Game, AnsweringKing, Mover)
              THEN outcome = GameOver("CHECKMATE", Mover)
              ELSE outcome = GameOver("STALEMATE", "")
        /\ outcome.status \in {"CHECKMATE", "STALEMATE"} => ~TrueAnswer

\* What a signature has to tell apart: the kind and colour on every square,
\* the side to move, the castling rights and the en passant target
PositionKey(g) ==
    <<[r \in 1..BoardSize |-> [c \in 1..BoardSize |-> CellContent(g, r, c)]],
      g.turn, Rights(g), g.en_passant>>

\* The game held with another side to move, other castling rights and
\* another en passant target
Variants(g) ==
    {[g EXCEPT !.turn = t, !.castling = c, !.en_passant = e] :
        t \in {"w", "b"},
        c \in {<<"-">>, <<"K">>, <<"Q">>, <<"k">>, <<"K", "Q">>, <<"K", "q">>,
               <<"k", "q">>, <<"K", "Q", "k", "q">>},
        e \in {None, Position(OrdOf("a"), 3), Position(OrdOf("b"), 3),
               Position(OrdOf("b"), 6)}}

\* The games the game held can be compared with: the one the last call
\* started from, the ones the endgames start from, and its variants
Comparable == {prev} \cup {parse_fen(fen) : fen \in EndFens} \cup Variants(Game)

\* C23: the signature a committed move records is that of the position
\* reached; two positions have the same signature exactly when they agree in
\* board layout, side to move, castling rights and en passant target; and
\* ThreefoldRepetition is signalled by a committed move exactly when the
\* side to move has a listed move, the clock is below 100 and the signature
\* just recorded stands at least three times in the move history
C23_ThreefoldRepetition ==
    /\ (Committed /\ outcome.status # "CHECKMATE")
          => move_history[Len(move_history)] = Signature(Game)
    /\ \E g \in {Game} :
           \A h \in Comparable :
               Signature(g) = Signature(h) <=> PositionKey(g) = PositionKey(h)
    /\ outcome = GameOver("THREEFOLD_REPETITION", "")
          <=> (Committed /\ ~NoAnswerListed /\ ~ClockExpired /\ Repeated)
    /\ outcome.status = "THREEFOLD_REPETITION" => outcome.winner = ""

\* C23 witness: the ninth king step brings back, for the third time, the
\* position reached by the first, and ThreefoldRepetition is signalled
C23_Witness ==
    /\ outcome = GameOver("THREEFOLD_REPETITION", "")
    /\ Len(move_history) = 9
    /\ move_history[1] = move_history[9]
    /\ move_history[5] = move_history[9]
    /\ move_history[2] # move_history[9]
    /\ halfmove_clock = 9

\* A king and a bishop of each colour and nothing else stand on the board
KingAndBishopEach ==
    \A color \in {WHITE, BLACK} :
        \E k, b \in OnBoard(Game) :
            /\ pieces[k].kind = "King" /\ pieces[b].kind = "Bishop"
            /\ {id \in OnBoard(Game) : pieces[id].color = color} = {k, b}

\* C24: a committed move after which the side to move has a listed move, the
\* clock is below 100 and the signature recorded does not stand three times
\* signals InsufficientMaterial, without a winner, exactly when no pawn, rook
\* or queen is on the board and neither side has more than two pieces; with
\* king and bishop against king and bishop it is signalled
C24_InsufficientMaterial ==
    /\ outcome.status = "INSUFFICIENT_MATERIAL"
          => Committed /\ outcome = GameOver("INSUFFICIENT_MATERIAL", "")
    /\ (Committed /\ ~NoAnswerListed /\ ~ClockExpired /\ ~Repeated)
          => (outcome.status = "INSUFFICIENT_MATERIAL" <=> FewPieces)
    /\ (Committed /\ ~NoAnswerListed /\ ~ClockExpired /\ ~Repeated /\ KingAndBishopEach)
          => outcome = GameOver("INSUFFICIENT_MATERIAL", "")

\* C24 witness: a king's step with king and bishop against king and bishop
\* on the board ends the game with InsufficientMaterial
C24_Witness ==
    /\ Committed
    /\ KingAndBishopEach
    /\ prev.pieces[Moved.piece].kind = "King"
    /\ outcome = GameOver("INSUFFICIENT_MATERIAL", "")

--------------------------------------------------------------------------
(* Construction from a FEN *)

\* StandardGame was called on the text held in input
Attempted == outcome.kind # "NotConstructed"

\* The placement has eight ranks
EightRanks(txt) == Cardinality({k \in 1..Len(txt) : txt[k] = "/"}) = BoardSize - 1

\* Every character of the placement is a separator, a digit from 1 to 8 or
\* the letter of a piece
PlacementChars(txt) ==
    \A k \in 1..Len(txt) :
        txt[k] \in {"/", "1", "2", "3", "4", "5", "6", "7", "8",
                    "P", "N", "B", "R", "Q", "K", "p", "n", "b", "r", "q", "k"}

\* Eight ranks of eight squares, with one king of each colour
WellFormedPlacement(txt) ==
    /\ EightRanks(txt)
    /\ PlacementChars(txt)
    /\ \A n \in 1..BoardSize : Len(ExpandRank(txt, RankStart(txt, n))) = BoardSize
    /\ \A king \in {"K", "k"} : Cardinality({k \in 1..Len(txt) : txt[k] = king}) = 1

ValidSide(t) == t \in {<<"w">>, <<"b">>}

\* "-" or the letters of a non-empty subset of KQkq, in that order
ValidRights(t) ==
    \/ t = <<"-">>
    \/ /\ t # <<>>
       /\ \E pick \in [1..Len(t) -> 1..4] :
              /\ \A i \in 1..Len(t) : t[i] = <<"K", "Q", "k", "q">>[pick[i]]
              /\ \A i, j \in 1..Len(t) : i < j => pick[i] < pick[j]

\* "-" or a square of rank 3 or 6
ValidTarget(t) ==
    \/ t = <<"-">>
    \/ Len(t) = 2 /\ IsFileChar(t[1]) /\ t[2] \in {"3", "6"}

\* The text of a non-negative integer
Unsigned(t) == t # <<>> /\ \A i \in 1..Len(t) : IsDecimalChar(t[i])

ValidHalfmove(t) == Unsigned(t)

ValidFullmove(t) == Unsigned(t) /\ DecimalValue(t, Len(t)) >= 1

\* C29: construction succeeds for every FEN with eight ranks of eight
\* squares and one king per colour, side w or b, castling "-" or a
\* non-empty subset of KQkq in that order, en passant "-" or a square of
\* rank 3 or 6, a non-negative halfmove clock and a positive fullmove
\* number; the game built holds those values
C29_FenAccepted ==
    (/\ Attempted
     /\ Len(input) = 6
     /\ WellFormedPlacement(input[1])
     /\ ValidSide(input[2])
     /\ ValidRights(input[3])
     /\ ValidTarget(input[4])
     /\ ValidHalfmove(input[5])
     /\ ValidFullmove(input[6]))
        => /\ outcome.kind = "Constructed"
           /\ BoardRepr(Game) = input[1]
           /\ <<turn>> = input[2]
           /\ castling = input[3]
           /\ EnPassantStr(Game) = input[4]
           /\ halfmove_clock = DecimalValue(input[5], Len(input[5]))
           /\ fullmove_number = DecimalValue(input[6], Len(input[6]))

\* C30: construction from a FEN whose placement has a number of ranks other
\* than eight or a character that is no digit from 1 to 8 and no piece
\* letter, or whose side, castling field, en passant field, halfmove clock
\* or fullmove number is out of range, fails with InvalidFen, with no other
\* kind of failure, and leaves no game
C30_FenRejected ==
    (/\ Attempted
     /\ Len(input) = 6
     /\ \/ ~EightRanks(input[1])
        \/ ~PlacementChars(input[1])
        \/ ~ValidSide(input[2])
        \/ ~ValidRights(input[3])
        \/ ~ValidTarget(input[4])
        \/ ~ValidHalfmove(input[5])
        \/ ~ValidFullmove(input[6]))
        => outcome.kind = "InvalidFenError" /\ Game = NoGame

--------------------------------------------------------------------------
(* Attacked squares *)

\* The game with nothing in the grid but the piece id
Alone(g, id) ==
    [g EXCEPT !.matrix = [r \in 1..BoardSize |-> [c \in 1..BoardSize |->
                              IF g.matrix[r][c] = id THEN id ELSE NoPiece]]]

\* The pawns standing on the board
PawnsOnBoard == {id \in OnBoard(Game) : pieces[id].kind = "Pawn"}

\* C31: a square is attacked by a colour exactly when some piece of the
\* colour on the board is a pawn with the square on one of its two forward
\* diagonals, occupied or not, or is another piece that can move to the
\* square; so a pawn alone attacks neither the square one ahead nor the
\* square two ahead of it and attacks both of its forward diagonals
C31_AttackedExact ==
    \E g \in {Game} :
        /\ \A sq \in Squares : \A color \in {WHITE, BLACK} :
               is_attacked(g, sq, color) <=>
                   \E id \in OnBoard(g) :
                       /\ g.pieces[id].color = color
                       /\ IF g.pieces[id].kind = "Pawn"
                          THEN sq \in {Ahead(g.pieces[id], 1, 1), Ahead(g.pieces[id], -1, 1)}
                          ELSE CanMove(g, id, sq)
        /\ \A id \in PawnsOnBoard :
               \E h \in {Alone(g, id)} :
                   LET p == g.pieces[id]
                   IN  /\ ~is_attacked(h, Ahead(p, 0, 1), p.color)
                       /\ ~is_attacked(h, Ahead(p, 0, 2), p.color)
                       /\ is_attacked(h, Ahead(p, 1, 1), p.color)
                       /\ is_attacked(h, Ahead(p, -1, 1), p.color)

\* C31 witness: after a committed move a pawn can advance to the empty
\* square ahead of it, which its colour does not attack, while the square on
\* its forward diagonal is attacked by the pawn alone
C31_Witness ==
    /\ Committed
    /\ \E id \in PawnsOnBoard :
           LET p == pieces[id]
           IN  /\ Ahead(p, 0, 1) \in Squares
               /\ PawnCanMove(Game, p, Ahead(p, 0, 1))
               /\ ~is_attacked(Game, Ahead(p, 0, 1), p.color)
               /\ Ahead(p, 1, 1) \in Squares
               /\ Empty(Game, Ahead(p, 1, 1))
               /\ is_attacked(Alone(Game, id), Ahead(p, 1, 1), p.color)

--------------------------------------------------------------------------
(* Grid and recorded positions *)

\* The squares whose grid cell holds the piece id
CellsOf(g, id) == {s \in Squares : BoardGet(g, s) = id}

\* The last call returned or raised as the program expects: the game was
\* constructed, a move was committed, or a move was rejected
Settled == outcome.kind \notin Crashes

\* C32: outside a legality probe (after construction, after every committed
\* move and after every rejected move) every piece stored in a grid cell has
\* a recorded position equal to that cell, and no piece is in two cells
C32_GridConsistent ==
    Settled =>
        \A s \in Squares :
            \E id \in {BoardGet(Game, s)} :
                id # NoPiece =>
                    /\ pieces[id].pos = s
                    /\ CellsOf(Game, id) = {s}

\* C32 witness: a committed castling move has put the king and the rook
\* on new squares, each recorded on its new square and in that cell only
C32_Witness ==
    /\ CastlingCommitted
    /\ Cardinality(Relocated) = 2
    /\ \A id \in Relocated : CellsOf(Game, id) = {pieces[id].pos}

--------------------------------------------------------------------------
(* Calls on a game that is over *)

\* C33: a terminal result is raised at most once per game: the move() call
\* that follows a call that signalled GameOver neither commits a move nor
\* signals GameOver again
C33_GameOverOnce ==
    [][outcome.kind = "GameOver" => outcome'.kind \notin {"Committed", "GameOver"}]_vars

--------------------------------------------------------------------------
(* Pieces leaving the board *)

\* The pieces the last call took out of the grid
Removed == OnBoard(prev) \ OnBoard(Game)

\* The last committed move went to a square an opposing piece stood on, or
\* was a pawn's move to the en passant target
IsCapture ==
    /\ input \notin {OO, OOO}
    /\ \/ \E id \in {BoardGet(prev, Moved.pos)} :
              id # NoPiece /\ prev.pieces[id].color # prev.pieces[Moved.piece].color
       \/ /\ prev.pieces[Moved.piece].kind = "Pawn"
          /\ prev.en_passant # None
          /\ Moved.pos = prev.en_passant

\* C34: pieces leave the board only by capture by the opponent: a committed
\* move takes no piece of the mover's colour out of the grid, takes exactly
\* one piece out when it is a capture (en passant included) and none
\* otherwise (castling and promotion included), and the piece taken is of
\* the opponent's colour
C34_OnlyCaptureRemoves ==
    Committed =>
        /\ OnBoard(Game) \subseteq OnBoard(prev)
        /\ \A id \in Removed : prev.pieces[id].color # COLOR_MAP[prev.turn]
        /\ Cardinality(Removed) = IF IsCapture THEN 1 ELSE 0

--------------------------------------------------------------------------
(* The kings *)

\* The squares whose grid cell holds a king of the colour
KingCells(g, color) ==
    {s \in Squares : \E id \in {BoardGet(g, s)} :
        id # NoPiece /\ g.pieces[id].kind = "King" /\ g.pieces[id].color = color}

\* C35: after every committed move (ordinary move, capture, en passant
\* capture, promotion or castling) the king of the side that just moved is
\* not attacked by any piece of the side now to move
C35_MoverKingSafe ==
    Committed =>
        \A s \in KingCells(Game, Mover) : ~AttackedBy(Game, s, Opponent)


\* C36: in every state reached by committed moves from a position with one
\* king per colour, the grid holds exactly one king of each colour (so no
\* committed move has captured a king) and kings[colour] is the king that
\* stands in the grid at its recorded position
C36_OneKingEach ==
    Settled =>
        \A color \in {WHITE, BLACK} :
            /\ Cardinality(KingCells(Game, color)) = 1
            /\ pieces[kings[color]].kind = "King"
            /\ pieces[kings[color]].color = color
            /\ KingCells(Game, color) = {pieces[kings[color]].pos}
            /\ BoardGet(Game, pieces[kings[color]].pos) = kings[color]

--------------------------------------------------------------------------
(* Repetition of the constructed position *)

\* The signature of the position the game was constructed with
ConstructedSignature == Signature(parse_fen(FenShuffle))

\* How many times the signature stands in the move history
Recorded(sig) == Cardinality({i \in 1..Len(move_history) : move_history[i] = sig})

\* C37: the position the game was constructed with counts as an occurrence:
\* when a committed move brings that position back and it has then occurred
\* three times, the constructed position counted, ThreefoldRepetition is
\* signalled unless the side to move has no listed move or the clock is at 100
C37_StartCounts ==
    (/\ Committed
     /\ Signature(Game) = ConstructedSignature
     /\ 1 + Recorded(ConstructedSignature) = 3
     /\ ~NoAnswerListed
     /\ ~ClockExpired)
        => outcome = GameOver("THREEFOLD_REPETITION", "")

--------------------------------------------------------------------------
(* The length of a rank *)

\* The number of ranks of a placement text
RankCount(txt) == 1 + Cardinality({k \in 1..Len(txt) : txt[k] = "/"})

\* The number of squares the n-th rank of a placement text describes
RankSquares(txt, n) == Len(ExpandRank(txt, RankStart(txt, n)))

\* Some rank of the placement text describes fewer or more than 8 squares
BadRank(txt) == \E n \in 1..RankCount(txt) : RankSquares(txt, n) # BoardSize

\* C38: a placement with a rank that does not describe exactly 8 squares is
\* rejected with InvalidFen, and every placement a game is constructed from
\* describes exactly 8 squares in each of its 8 ranks
C38_RankLength ==
    /\ (Attempted /\ Len(input) = 6 /\ BadRank(input[1]))
           => outcome.kind = "InvalidFenError"
    /\ outcome.kind = "Constructed"
           => /\ RankCount(input[1]) = BoardSize
              /\ \A n \in 1..BoardSize : RankSquares(input[1], n) = BoardSize

--------------------------------------------------------------------------
(* The squares of the board *)

\* The position has a file from a to h and a rank from 1 to 8
OnTheBoard(pos) ==
    /\ Col(pos) \in OrdOf("a")..OrdOf("h")
    /\ Row(pos) \in 1..BoardSize

\* C39: is_valid answers true exactly for the positions with a file from a
\* to h and a rank from 1 to 8: true on every square of the a-file, false on
\* every position one file beyond h
C39_IsValidExact ==
    outcome.kind = "Returned" =>
        /\ outcome.status = "True" <=> OnTheBoard(input)
        /\ (Col(input) = OrdOf("a") /\ Row(input) \in 1..BoardSize) => outcome.status = "True"
        /\ Col(input) = OrdOf("h") + 1 => outcome.status = "False"

====
